---- MODULE Spec2Model ----
(***************************************************************************)
(* MCP Streamable HTTP transport of odoo-rust-mcp (rust-mcp/src/mcp/http.rs) *)
(* as a state machine: the session registry, the push-channel registry,    *)
(* the request handlers of POST/GET/DELETE /mcp, GET /sse and POST         *)
(* /messages, and the security checks that gate them.                      *)
(*                                                                         *)
(* Text is a tuple of pieces.  A piece is one character where the code     *)
(* looks inside the text (contains, starts_with, slicing) and a whole      *)
(* token where the code only compares or concatenates it.                  *)
(* Option<T> is a set with at most one element.                            *)
(***************************************************************************)
EXTENDS Integers, Sequences, FiniteSets, Bags, TLC

(***************************************************************************)
(* Bounds of the model                                                     *)
(***************************************************************************)
MaxRequests == 4

MaxInflight == 2

MaxStreams == 2

(***************************************************************************)
(* Option and Result                                                       *)
(***************************************************************************)
None == {}

Some(x) == {x}

IsSome(o) == o # {}

Unwrap(o) == CHOOSE x \in o : TRUE

Ok == [ok |-> TRUE]

Err(status, error, message) ==
    [ok |-> FALSE, status |-> status, error |-> error, message |-> message]

(***************************************************************************)
(* Text literals                                                           *)
(***************************************************************************)
Http == <<"h", "t", "t", "p", ":", "/", "/">>

Https == <<"h", "t", "t", "p", "s", ":", "/", "/">>

Localhost == <<"l", "o", "c", "a", "l", "h", "o", "s", "t">>

Loopback4 == <<"1", "2", "7", ".", "0", ".", "0", ".", "1">>

Loopback6 == <<"[", ":", ":", "1", "]">>

EvilCom == <<"e", "v", "i", "l", ".", "c", "o", "m">>

ExampleCom == <<"e", "x", "a", "m", "p", "l", "e", ".", "c", "o", "m">>

OtherCom == <<"o", "t", "h", "e", "r", ".", "c", "o", "m">>

Bearer == <<"B", "e", "a", "r", "e", "r", " ">>

Basic == <<"B", "a", "s", "i", "c", " ">>

Secret == <<"s", "e", "c", "r", "e", "t">>

Wrong == <<"w", "r", "o", "n", "g">>

\* a byte of a header value outside visible ASCII (obs-text, 0x80..0xFF)
ObsText == {"0xE9"}

DEFAULT_PROTOCOL_VERSION == <<"2025-03-26">>

CURRENT_PROTOCOL_VERSION == <<"2025-11-05">>

known_versions ==
    {<<"2024-11-05">>, <<"2025-03-26">>, <<"2025-11-05">>, CURRENT_PROTOCOL_VERSION}

UnknownVersion == <<"1999-01-01">>

\* the literal session id GET /mcp falls back to
DefaultSid == <<"default">>

(***************************************************************************)
(* Text operations                                                         *)
(***************************************************************************)
is_visible_ascii(b) == b \notin ObsText

\* HeaderValue::to_str: the text, if every byte is visible ASCII
to_str(v) == IF \A i \in 1..Len(v) : is_visible_ascii(v[i]) THEN Some(v) ELSE None

\* headers.get(&NAME).and_then(|v| v.to_str().ok())
header_str(h) == IF h = None THEN None ELSE to_str(Unwrap(h))

contains(s, n) == \E i \in 1..(Len(s) - Len(n) + 1) : SubSeq(s, i, i + Len(n) - 1) = n

starts_with(s, p) == Len(s) >= Len(p) /\ SubSeq(s, 1, Len(p)) = p

(***************************************************************************)
(* Security validation pipeline                                            *)
(***************************************************************************)
is_localhost(origin_str) ==
    \/ contains(origin_str, Localhost)
    \/ contains(origin_str, Loopback4)
    \/ contains(origin_str, Loopback6)

validate_origin(headers, sec) ==
    IF sec.allowed_origins = None
    THEN Ok
    ELSE LET allowed == Unwrap(sec.allowed_origins)
             origin == header_str(headers.origin)
         IN  IF IsSome(origin)
             THEN LET origin_str == Unwrap(origin)
                  IN  IF allowed = <<>>
                      THEN IF is_localhost(origin_str)
                           THEN Ok
                           ELSE Err(403, "InvalidRequest",
                                    "Origin not allowed: only localhost permitted")
                      ELSE IF \/ \E i \in 1..Len(allowed) : allowed[i] = origin_str
                              \/ is_localhost(origin_str)
                           THEN Ok
                           ELSE Err(403, "InvalidRequest", "Origin not allowed")
             ELSE Ok

token_eq(token, expected_token) == token = expected_token

deny_all_mut == Ok

\* auth enabled but no token configured: deny all
deny_all == Err(500, "server_error", "Authentication enabled but no token configured")

validate_auth(headers, a) ==
    IF ~a.enabled
    THEN Ok
    ELSE IF a.bearer_token = None
    THEN deny_all
    ELSE LET expected_token == Unwrap(a.bearer_token)
             auth_header == header_str(headers.authorization)
         IN  IF IsSome(auth_header) /\ starts_with(Unwrap(auth_header), Bearer)
             THEN LET header == Unwrap(auth_header)
                      token == SubSeq(header, 8, Len(header))
                  IN  IF token_eq(token, expected_token)
                      THEN Ok
                      ELSE Err(401, "invalid_token", "The access token is invalid")
             ELSE IF IsSome(auth_header)
             THEN Err(401, "invalid_request",
                      "Authorization header must use Bearer scheme")
             ELSE Err(401, "invalid_request", "Missing Authorization header")

validate_protocol_version(headers, session) ==
    LET version == header_str(headers.version)
    IN  IF IsSome(version)
        THEN LET v == Unwrap(version)
                 expected == IF IsSome(session)
                             THEN Unwrap(session).protocol_version
                             ELSE CURRENT_PROTOCOL_VERSION
             IN  IF v = expected \/ v \in known_versions
                 THEN Ok
                 ELSE Err(400, "InvalidRequest", "Unsupported protocol version")
        ELSE Ok


(***************************************************************************)
(* State                                                                   *)
(***************************************************************************)
VARIABLES
    security,       \* AppState.security (fixed at create_app_with_security)
    auth,           \* AppState.auth
    sessions,       \* AppState.sessions: session id -> SessionState
    event_counter,  \* the shared Arc<AtomicU64> of every SessionState made, by id
    sse_channels,   \* AppState.sse_channels: the ids that have a broadcast channel
    streams,        \* the SSE response streams handed to clients (a bag)
    inflight,       \* the handler tasks in progress (a bag)
    uuid_count,     \* Uuid::new_v4() calls so far, by what the id is used for
    nreq,           \* HTTP requests received so far
    env,            \* what the clients of this run send: how much and how varied
    known,          \* session ids a client has been told
    notified,       \* sessions for which an `initialized` notification was processed
    terminated_ok,  \* the ids of the DELETE /mcp requests answered 200, in order
    ev,             \* the request received or answered by the last step
    arg,            \* inputs of the validation functions (function-level runs)
    ret,            \* the last validation function applied and its result
    event_buffer,   \* SessionState.event_buffer of one session state (function-level runs)
    stored,         \* store_event calls made on that session state so far
    compat,         \* one HTTP session and one stdio connection fed the same messages
    files,          \* the text of each configuration file, if the file exists
    instances_cache \* ConfigManager.instances_cache

vars ==
    <<security, auth, sessions, event_counter, sse_channels, streams, inflight,
      uuid_count, nreq, env, known, notified, terminated_ok, ev, arg, ret,
      event_buffer, stored, compat,
                   files, instances_cache>>

\* what no request handler changes
fixed == <<security, auth, env, arg, ret, event_buffer, stored, compat,
                   files, instances_cache>>

(***************************************************************************)
(* Values                                                                  *)
(***************************************************************************)
UuidStr_mut(use, n) == <<"uuid", use, "1">>

\* Uuid::new_v4().to_string(): the n-th id drawn for a use (a session, a legacy
\* stream, an event); two draws never collide
UuidStr(use, n) == <<"uuid", use, ToString(n)>>

SessionState_new(protocol_version) ==
    [initialized |-> TRUE, protocol_version |-> protocol_version]

fetch_add_mut(counter) == counter

\* AtomicU64::fetch_add(1): the new value of the counter (the old one is returned)
fetch_add(counter) == counter + 1

\* format!("{}:{}", session_id, counter)
next_event_id(session_id, counter) == session_id \o <<":", ToString(counter)>>

\* McpOdooHandler::protocol_version_default()
protocol_version_default == DEFAULT_PROTOCOL_VERSION

ValidIds == {"1", "2"}

\* serde_json::from_value::<RequestId>: a number or a string, nothing else
from_value_RequestId(x) == IF x \in ValidIds THEN Some(x) ELSE None

\* a JSON value: a string, or something that is not a string
JsonStr(s) == [type |-> "string", s |-> s]

JsonNum == [type |-> "number", s |-> <<>>]

as_str(j) == IF j.type = "string" THEN Some(j.s) ELSE None

\* Response::success(id, Some(result)) and jsonrpc_err(id, code, message)
Success(id, result) == [id |-> id, result |-> Some(result), error |-> None]

jsonrpc_err_mut(id, code) == [id |-> "0", result |-> None, error |-> Some(code)]

jsonrpc_err(id, code) == [id |-> id, result |-> None, error |-> Some(code)]

InitializeResult(protocol_version) ==
    [kind |-> "initialize", protocolVersion |-> protocol_version]

HandlerResult == [kind |-> "handler", protocolVersion |-> <<>>]

cursor_initialize_result(pv, protocol_default) ==
    LET requested == IF pv = None THEN None ELSE as_str(Unwrap(pv))
        protocol_version == IF IsSome(requested) THEN Unwrap(requested)
                            ELSE protocol_default
    IN  <<InitializeResult(protocol_version), protocol_version>>

(***************************************************************************)
(* Registries (HashMap) and streams                                        *)
(***************************************************************************)
EmptyMap == [x \in {} |-> x]

Insert(m, k, v) == [x \in DOMAIN m \cup {k} |-> IF x = k THEN v ELSE m[x]]

Remove(m, k) == [x \in DOMAIN m \ {k} |-> m[x]]

\* sessions.get(id).cloned()
Get(m, k) == IF IsSome(k) /\ Unwrap(k) \in DOMAIN m THEN Some(m[Unwrap(k)]) ELSE None

One(x) == SetToBag({x})

\* the bag b with every copy of every element x replaced by f[x]
MapBag(f, b) ==
    LET copies == UNION {{<<x, i>> : i \in 1..b[x]} : x \in DOMAIN b}
    IN  [y \in {f[x] : x \in DOMAIN b} |-> Cardinality({c \in copies : f[c[1]] = y})]

\* broadcast::channel(256)
CHANNEL_CAPACITY == 256

enqueue_mut(queue, v) ==
    IF Len(queue) >= CHANNEL_CAPACITY THEN queue ELSE Append(queue, v)

\* a receiver that lags more than the capacity loses its oldest message
enqueue(queue, v) ==
    IF Len(queue) >= CHANNEL_CAPACITY THEN Append(Tail(queue), v) ELSE Append(queue, v)

\* tx.send(v) on the channel registered for session_id: every receiver subscribed
\* to that channel gets the value
send(strs, session_id, v) ==
    LET deliver == [s \in DOMAIN strs |->
                       IF s.sid = session_id /\ s.attached /\ s.open
                       THEN [s EXCEPT !.queue = enqueue(@, v)]
                       ELSE s]
    IN  MapBag(deliver, strs)

\* the registry entry (the channel's only lasting Sender) is dropped: the
\* receivers subscribed to it see the channel closed once they have drained it
drop_sender(strs, session_id) ==
    LET detach == [s \in DOMAIN strs |->
                      IF s.sid = session_id THEN [s EXCEPT !.attached = FALSE] ELSE s]
    IN  MapBag(detach, strs)

\* an SSE event: its event name, id, data (a JSON-RPC envelope) or endpoint path
SseEvent(event, id, data, path) ==
    [event |-> event, id |-> id, data |-> data, path |-> path]

held_across_mut(pc) == IF pc = "in_handler" THEN {"sessions"} ELSE {}

\* The registry MutexGuards alive where a handler or a stream waits: none.
\* Every guard is a temporary of one statement or a local of a block that
\* closes before the next await on anything but a registry mutex: the session
\* check of mcp_post, the inserts of initialize, the get_mut of initialized,
\* the if-let of the gate (which ends before handle_method is called), the
\* block of mcp_get (which ends before the stream is built), the two blocks of
\* mcp_delete and the if-let around tx.send.
held_across(pc) == {}

\* a response stream: the receiver (tx.subscribe()) and what it has emitted
NewStream(kind, sid, has_state, first) ==
    [kind |-> kind, sid |-> sid, has_state |-> has_state, attached |-> TRUE,
     queue |-> <<>>, events |-> <<first>>, open |-> TRUE,
     held |-> held_across("stream")]

(***************************************************************************)
(* Requests, handler tasks and the record of the last step                 *)
(***************************************************************************)
Body(json, is_object, method, id, pv) ==
    [json |-> json, is_object |-> is_object, method |-> method, id |-> id, pv |-> pv]

NoBody == Body(TRUE, FALSE, None, None, None)

NewTask(pc, ep, session, body) ==
    [pc |-> pc, ep |-> ep, session |-> session, body |-> body,
     maybe_resp |-> None, removed |-> FALSE, calls |-> 0, held |-> held_across(pc)]

NoEv ==
    [op |-> "none", ep |-> "", session |-> None, method |-> None, id |-> None,
     status |-> 0, error |-> "", message |-> "", body |-> None, sess_hdr |-> None, ver_hdr |-> None,
     origin_ok |-> TRUE, auth_ok |-> TRUE, version_ok |-> TRUE, has_version |-> FALSE,
     calls |-> 0, outcome |-> ""]

\* a request as it arrives: what it carries and what each check answers for it
RecvEv(op, ep, headers, session, body, session_state) ==
    [NoEv EXCEPT !.op = op, !.ep = ep, !.session = session,
                 !.method = body.method, !.id = body.id,
                 !.origin_ok = validate_origin(headers, security).ok,
                 !.auth_ok = validate_auth(headers, auth).ok,
                 !.version_ok = validate_protocol_version(headers, session_state).ok,
                 !.has_version = IsSome(headers.version)]

TaskEv(op, t) ==
    [NoEv EXCEPT !.op = op, !.ep = t.ep, !.session = t.session,
                 !.method = t.body.method, !.id = t.body.id, !.calls = t.calls]

\* the error response of a failed check
Reply(e, r) ==
    [e EXCEPT !.status = r.status, !.error = r.error, !.message = r.message]

\* axum's Json extractor rejects a body that is not JSON before the handler runs
JsonRejection == Err(400, "json_rejection", "Failed to parse the request body as JSON")

CanReceive ==
    /\ nreq < env.requests
    /\ BagCardinality(inflight) < env.inflight

\* mutex.lock().await returns: no handler and no stream holds a guard of it
Unlocked(mutex) ==
    /\ \A t \in BagToSet(inflight) : mutex \notin t.held
    /\ \A s \in BagToSet(streams) : mutex \notin s.held

\* the request gets past validate_origin and validate_auth
Admitted(headers) ==
    validate_origin(headers, security).ok /\ validate_auth(headers, auth).ok

(***************************************************************************)
(* What the environment sends                                              *)
(***************************************************************************)
\* Header values are varied only where a check reads them: validate_origin
\* returns before reading Origin when validation is disabled, validate_auth
\* before reading Authorization when auth is disabled.  Clients that follow the
\* protocol (env.wild = FALSE) send well-formed JSON-RPC messages, no version
\* header, and only session ids they were told.
OriginChoices ==
    IF security.allowed_origins = None
    THEN {None}
    ELSE {None, Some(Http \o Localhost), Some(Http \o EvilCom)}

AuthorizationChoices ==
    IF ~auth.enabled
    THEN {None}
    ELSE {None, Some(Bearer \o Secret), Some(Bearer \o Wrong)}

VersionChoices ==
    IF env.wild THEN {None, Some(UnknownVersion)} ELSE {None}

\* the literal "default", which nobody was told
WildIds == IF env.wild THEN {DefaultSid} ELSE {}

SessionChoices == {None} \cup {Some(s) : s \in known \cup WildIds}

Headers(origin, authorization, version, session) ==
    [origin |-> origin, authorization |-> authorization, version |-> version,
     session |-> session]

HeaderChoices ==
    {Headers(o, a, v, s) : o \in OriginChoices, a \in AuthorizationChoices,
                           v \in VersionChoices, s \in SessionChoices}

\* the query string of POST /messages: ?sessionId=<id> or nothing
QueryChoices == {None} \cup {Some(s) : s \in known \cup WildIds}

WellFormedBodies ==
    {Body(TRUE, TRUE, Some("initialize"), Some("1"), None),
     Body(TRUE, TRUE, Some("initialized"), None, None),
     Body(TRUE, TRUE, Some("tools/list"), None, None),
     Body(TRUE, TRUE, Some("tools/list"), Some("2"), None)}

\* a body that is not JSON
NotJson == Body(FALSE, FALSE, None, None, None)

\* an initialize that asks for a version the server does not know
OddInitialize ==
    Body(TRUE, TRUE, Some("initialize"), Some("1"), Some(JsonStr(UnknownVersion)))

\* JSON that is no JSON-RPC message, or one whose id or version is out of the
\* ordinary: not an object; no method; initialize without an id; an id that is
\* neither a number nor a string; initialize asking for the current version,
\* for an unknown version, for a version that is not text
OtherBodies ==
    {Body(TRUE, FALSE, None, None, None),
     Body(TRUE, TRUE, None, Some("1"), None),
     Body(TRUE, TRUE, Some("initialize"), None, None),
     Body(TRUE, TRUE, Some("initialize"), Some("true"), None),
     Body(TRUE, TRUE, Some("tools/list"), Some("true"), None),
     Body(TRUE, TRUE, Some("initialize"), Some("1"), Some(JsonStr(CURRENT_PROTOCOL_VERSION))),
     Body(TRUE, TRUE, Some("initialize"), Some("1"), Some(JsonNum)),
     OddInitialize}

Bodies ==
    WellFormedBodies
        \cup (IF env.wild THEN {NotJson, OddInitialize} ELSE {})
        \cup (IF env.other THEN OtherBodies ELSE {})

(***************************************************************************)
(* handle_jsonrpc                                                          *)
(***************************************************************************)
\* Ok((new_sess, maybe_resp, status, protocol_version))
JOk(new_sess, maybe_resp, status, protocol_version) ==
    [ok |-> TRUE, new_sess |-> new_sess, maybe_resp |-> maybe_resp, status |-> status,
     protocol_version |-> protocol_version, error |-> ""]

\* Err((status, value)): value is {"error": text} or a JSON-RPC error envelope
JErr(status, error, value) ==
    [ok |-> FALSE, new_sess |-> None, maybe_resp |-> value, status |-> status,
     protocol_version |-> None, error |-> error]

notification_result_mut(succeeded) ==
    IF succeeded THEN JOk(None, None, 202, None)
    ELSE JErr(200, "InternalError", Some(jsonrpc_err("unknown", "InternalError")))

\* let _ = handle_method(..): the result of a notification's handler call is
\* dropped and the answer is Accepted
notification_result(succeeded) == JOk(None, None, 202, None)

\* a legacy_messages that tells the client the id of the new session
Return_mut(old, t, e, res) ==
    IF t.ep = "POST /mcp"
    THEN /\ ev' = [e EXCEPT !.status = res.status, !.error = res.error,
                            !.body = res.maybe_resp, !.sess_hdr = res.new_sess,
                            !.ver_hdr = res.protocol_version]
         /\ inflight' = inflight (-) old
         /\ known' = known \cup res.new_sess
    ELSE /\ known' = known \cup res.new_sess
         /\ IF ~res.ok
            THEN /\ ev' = [e EXCEPT !.status = 400]
                 /\ inflight' = inflight (-) old
            ELSE IF IsSome(t.session) /\ IsSome(res.maybe_resp)
            THEN /\ ev' = e
                 /\ inflight' = (inflight (-) old) (+)
                        One([t EXCEPT !.pc = "publish", !.maybe_resp = res.maybe_resp,
                                      !.held = held_across("publish")])
            ELSE /\ ev' = [e EXCEPT !.status = 202]
                 /\ inflight' = inflight (-) old

\* What the caller does with handle_jsonrpc's result.  `old` is the bag holding
\* the task as it was (empty when the request has just arrived).
\* mcp_post: the result goes into the HTTP response.
\* legacy_messages: 400 on Err; else the envelope, if any, is to be published on
\* the channel of the request's session id, and the answer is 202.
Return(old, t, e, res) ==
    IF t.ep = "POST /mcp"
    THEN /\ ev' = [e EXCEPT !.status = res.status, !.error = res.error,
                            !.body = res.maybe_resp, !.sess_hdr = res.new_sess,
                            !.ver_hdr = res.protocol_version]
         /\ inflight' = inflight (-) old
         /\ known' = known \cup res.new_sess
    ELSE /\ known' = known
         /\ IF ~res.ok
            THEN /\ ev' = [e EXCEPT !.status = 400]
                 /\ inflight' = inflight (-) old
            ELSE IF IsSome(t.session) /\ IsSome(res.maybe_resp)
            THEN /\ ev' = e
                 /\ inflight' = (inflight (-) old) (+)
                        One([t EXCEPT !.pc = "publish", !.maybe_resp = res.maybe_resp,
                                      !.held = held_across("publish")])
            ELSE /\ ev' = [e EXCEPT !.status = 202]
                 /\ inflight' = inflight (-) old

\* the handshake gate: the session is known and not initialized
set_initialized_mut(sess, session_id) ==
    Insert(sess, session_id,
           [initialized |-> TRUE, protocol_version |-> DEFAULT_PROTOCOL_VERSION])

set_initialized_new(sess, session_id) ==
    IF session_id \in DOMAIN sess
    THEN [sess EXCEPT ![session_id] = SessionState_new(CURRENT_PROTOCOL_VERSION)]
    ELSE sess

\* if let Some(st) = sessions.get_mut(sess) { st.initialized = true }
set_initialized(sess, session_id) ==
    IF session_id \in DOMAIN sess
    THEN [sess EXCEPT ![session_id].initialized = TRUE]
    ELSE sess

\* a gate that also stops a message naming no registered session
gate_mut(st) == st = None \/ ~Unwrap(st).initialized

\* the handshake gate: the session is registered and not initialized
gate(st) == IsSome(st) /\ ~Unwrap(st).initialized

initialize_id_mut(id_val) == IF id_val = None THEN Some("1") ELSE id_val

\* id_val.ok_or(..)?: the id of an initialize, which must have one
initialize_id(id_val) == id_val

\* handle_jsonrpc from its entry to its first await on the handler's
\* the registry mutexes handle_jsonrpc locks on its way for the message of t
jsonrpc_locks(t) ==
    IF ~t.body.is_object \/ t.body.method = None THEN {}
    ELSE IF t.body.method = Some("initialize")
    THEN IF t.body.id = None \/ from_value_RequestId(Unwrap(initialize_id(t.body.id))) = None
         THEN {}
         ELSE {"sessions", "sse_channels"}
    ELSE IF IsSome(t.session) THEN {"sessions"}
    ELSE {}

\* handle_method: parsing, and for initialize, initialized and the gate the
\* critical sections on the registries.  The session and the channel of an
\* initialize are inserted in one step: the id is told to nobody before.
handle_jsonrpc(old, t, e) ==
    LET method == t.body.method
        id_val == t.body.id
        effective_session == t.session
        st == Get(sessions, effective_session)
        quiet == UNCHANGED <<sessions, event_counter, sse_channels, uuid_count, notified>>
    IN  IF \E mutex \in jsonrpc_locks(t) : ~Unlocked(mutex)
        THEN FALSE  \* lock().await does not return yet
        ELSE IF ~t.body.is_object
        THEN Return(old, t, e, JErr(400, "expected object", None)) /\ quiet
        ELSE IF method = None
        THEN Return(old, t, e, JErr(400, "missing method", None)) /\ quiet
        ELSE IF method = Some("initialize")
        THEN IF initialize_id(id_val) = None
             THEN Return(old, t, e, JErr(400, "initialize requires id", None)) /\ quiet
             ELSE IF from_value_RequestId(Unwrap(initialize_id(id_val))) = None
             THEN Return(old, t, e, JErr(400, "invalid id", None)) /\ quiet
             ELSE LET id == Unwrap(from_value_RequestId(Unwrap(initialize_id(id_val))))
                      init == cursor_initialize_result(t.body.pv, protocol_version_default)
                      result == init[1]
                      negotiated_version == init[2]
                      sess == UuidStr("session", uuid_count.session + 1)
                  IN  /\ uuid_count' = [uuid_count EXCEPT !.session = @ + 1]
                      /\ sessions' = Insert(sessions, sess,
                                            SessionState_new(negotiated_version))
                      /\ event_counter' = Insert(event_counter, sess, 0)
                      /\ sse_channels' = sse_channels \cup {sess}
                      /\ UNCHANGED notified
                      /\ Return(old, t, e,
                                JOk(Some(sess), Some(Success(id, result)), 200,
                                    Some(negotiated_version)))
        ELSE IF method = Some("initialized")
        THEN /\ sessions' = IF IsSome(effective_session)
                            THEN set_initialized(sessions, Unwrap(effective_session))
                            ELSE sessions
             /\ notified' = IF IsSome(st) THEN notified \cup effective_session
                            ELSE notified
             /\ UNCHANGED <<event_counter, sse_channels, uuid_count>>
             /\ Return(old, t, e, JOk(None, None, 202, None))
        ELSE IF gate(st)
        THEN LET parsed == IF id_val = None THEN None
                           ELSE from_value_RequestId(Unwrap(id_val))
                 id == IF IsSome(parsed) THEN Unwrap(parsed) ELSE "unknown"
             IN  /\ Return(old, t, e,
                           JOk(None, Some(jsonrpc_err(id, "ServerNotInitialized")),
                               200, None))
                 /\ quiet
        ELSE IF id_val # None /\ from_value_RequestId(Unwrap(id_val)) = None
        THEN Return(old, t, e, JErr(400, "invalid id", None)) /\ quiet
        ELSE \* state.handler.handle_method(&method, params) is called
             /\ inflight' = (inflight (-) old) (+) One(
                    [t EXCEPT !.pc = "in_handler", !.calls = t.calls + 1,
                              !.held = held_across("in_handler")])
             /\ ev' = e
             /\ UNCHANGED known
             /\ quiet

(***************************************************************************)
(* validate_session                                                        *)
(***************************************************************************)
validate_session_mut(session_id, sess) == Ok

validate_session(session_id, sess) ==
    IF IsSome(session_id) /\ Unwrap(session_id) \notin DOMAIN sess
    THEN Err(404, "InvalidRequest", "Session not found or expired")
    ELSE Ok

(***************************************************************************)
(* POST /mcp                                                               *)
(***************************************************************************)
\* The request arrives.  With a session id on a message other than initialize,
\* the handler's first critical section is the validation of the session and
\* handle_jsonrpc runs in a later step; otherwise the handler goes straight
\* into handle_jsonrpc.
mcp_post(headers, body) ==
    /\ CanReceive
    /\ (/\ body.json
        /\ Admitted(headers)
        /\ body.method # Some("initialize")
        /\ IsSome(header_str(headers.session))) => Unlocked("sessions")
    /\ nreq' = nreq + 1
    /\ LET session_id == header_str(headers.session)
           is_initialize == body.method = Some("initialize")
           session_state == Get(sessions, session_id)
           origin == validate_origin(headers, security)
           authn == validate_auth(headers, auth)
           found == validate_session(session_id, sessions)
           version == validate_protocol_version(headers, session_state)
           validated == ~is_initialize /\ IsSome(session_id)
           rejection ==
               IF ~body.json THEN Some(JsonRejection)
               ELSE IF ~origin.ok THEN Some(origin)
               ELSE IF ~authn.ok THEN Some(authn)
               ELSE IF validated
               THEN IF ~found.ok THEN Some(found)
                    ELSE IF ~version.ok THEN Some(version)
                    ELSE None
               ELSE None
           e == RecvEv("mcp_post", "POST /mcp", headers, session_id, body, session_state)
           t == NewTask("jsonrpc", "POST /mcp", session_id, body)
       IN  IF IsSome(rejection)
           THEN /\ ev' = Reply(e, Unwrap(rejection))
                /\ UNCHANGED <<sessions, event_counter, sse_channels, uuid_count,
                               notified, inflight, known>>
           ELSE IF validated
           THEN /\ ev' = e
                /\ inflight' = inflight (+) One(t)
                /\ UNCHANGED <<sessions, event_counter, sse_channels, uuid_count,
                               notified, known>>
           ELSE handle_jsonrpc(EmptyBag, t, e)
    /\ UNCHANGED <<streams, terminated_ok, fixed>>

\* handle_jsonrpc of a POST /mcp whose session was validated
mcp_post_jsonrpc(t) ==
    /\ BagIn(t, inflight)
    /\ t.pc = "jsonrpc"
    /\ handle_jsonrpc(One(t), t, TaskEv("mcp_post_jsonrpc", t))
    /\ UNCHANGED <<streams, terminated_ok, nreq, fixed>>

\* handle_method returns, with a result or with an error
handler_returns(t, succeeded) ==
    /\ BagIn(t, inflight)
    /\ t.pc = "in_handler"
    /\ LET e == [TaskEv("handler_returns", t)
                 EXCEPT !.outcome = IF succeeded THEN "ok" ELSE "failed"]
       IN  IF t.body.id = None
           THEN Return(One(t), t, e, notification_result(succeeded))
           ELSE LET id == Unwrap(from_value_RequestId(Unwrap(t.body.id)))
                IN  IF succeeded
                    THEN Return(One(t), t, e,
                                JOk(None, Some(Success(id, HandlerResult)), 200, None))
                    ELSE Return(One(t), t, e,
                                JErr(200, "InternalError",
                                     Some(jsonrpc_err(id, "InternalError"))))
    /\ UNCHANGED <<sessions, event_counter, sse_channels, streams, uuid_count,
                   notified, terminated_ok, nreq, fixed>>

(***************************************************************************)
(* GET /mcp                                                                *)
(***************************************************************************)
\* The handler in one step: its critical section (channel entry, session clone),
\* the priming id and the subscription.  A message sent or a channel removed
\* between the critical section and the subscription has the effect it has
\* just before or just after the whole handler, so no outcome is lost.
mcp_get(headers) ==
    /\ nreq < env.requests
    /\ BagCardinality(streams) < MaxStreams
    /\ Admitted(headers) => (Unlocked("sse_channels") /\ Unlocked("sessions"))
    /\ nreq' = nreq + 1
    /\ LET origin == validate_origin(headers, security)
           authn == validate_auth(headers, auth)
           given == header_str(headers.session)
           session_id == IF IsSome(given) THEN Unwrap(given) ELSE DefaultSid
           session_state == Get(sessions, Some(session_id))
           e == RecvEv("mcp_get", "GET /mcp", headers, given, NoBody, session_state)
           initial_event_id ==
               IF IsSome(session_state)
               THEN next_event_id(session_id, event_counter[session_id])
               ELSE session_id \o <<":", "0">>
       IN  IF ~origin.ok
           THEN /\ ev' = Reply(e, origin)
                /\ UNCHANGED <<sse_channels, event_counter, streams>>
           ELSE IF ~authn.ok
           THEN /\ ev' = Reply(e, authn)
                /\ UNCHANGED <<sse_channels, event_counter, streams>>
           ELSE /\ sse_channels' = sse_channels \cup {session_id}
                /\ event_counter' =
                       IF IsSome(session_state)
                       THEN [event_counter EXCEPT ![session_id] = fetch_add(@)]
                       ELSE event_counter
                /\ streams' = streams (+) One(
                       NewStream("mcp", session_id, IsSome(session_state),
                                 SseEvent("connected", Some(initial_event_id), None, None)))
                /\ ev' = [e EXCEPT !.status = 200]
    /\ UNCHANGED <<sessions, inflight, uuid_count, known, notified, terminated_ok, fixed>>

(***************************************************************************)
(* DELETE /mcp                                                             *)
(***************************************************************************)
remove_is_some_mut(sess, session_id) == TRUE

\* sessions.remove(&session_id).is_some()
remove_is_some(sess, session_id) == session_id \in DOMAIN sess

channels_remove_mut(chans, session_id) == chans

\* channels.remove(&session_id)
channels_remove(chans, session_id) == chans \ {session_id}

\* the request arrives; first critical section: the session is removed
mcp_delete(headers) ==
    /\ CanReceive
    /\ (Admitted(headers) /\ IsSome(header_str(headers.session))) => Unlocked("sessions")
    /\ nreq' = nreq + 1
    /\ LET origin == validate_origin(headers, security)
           authn == validate_auth(headers, auth)
           session_id == header_str(headers.session)
           e == RecvEv("mcp_delete", "DELETE /mcp", headers, session_id, NoBody,
                       Get(sessions, session_id))
       IN  IF ~origin.ok
           THEN /\ ev' = Reply(e, origin)
                /\ UNCHANGED <<sessions, inflight>>
           ELSE IF ~authn.ok
           THEN /\ ev' = Reply(e, authn)
                /\ UNCHANGED <<sessions, inflight>>
           ELSE IF session_id = None
           THEN /\ ev' = Reply(e, Err(400, "InvalidRequest",
                                      "Missing MCP-Session-Id header"))
                /\ UNCHANGED <<sessions, inflight>>
           ELSE /\ sessions' = Remove(sessions, Unwrap(session_id))
                /\ inflight' = inflight (+) One(
                       [NewTask("delete_channel", "DELETE /mcp", session_id, NoBody)
                            EXCEPT !.removed =
                                remove_is_some(sessions, Unwrap(session_id))])
                /\ ev' = e
    /\ UNCHANGED <<event_counter, sse_channels, streams, uuid_count, known, notified,
                   terminated_ok, fixed>>

\* second critical section: the channel is removed, then the answer is built
delete_channel(t) ==
    /\ BagIn(t, inflight)
    /\ t.pc = "delete_channel"
    /\ Unlocked("sse_channels")
    /\ LET session_id == Unwrap(t.session)
           e == TaskEv("delete_channel", t)
       IN  /\ sse_channels' = channels_remove(sse_channels, session_id)
           /\ streams' = IF session_id \in sse_channels \ sse_channels'
                         THEN drop_sender(streams, session_id)
                         ELSE streams
           /\ IF t.removed
              THEN /\ ev' = [e EXCEPT !.status = 200]
                   /\ terminated_ok' = Append(terminated_ok, session_id)
              ELSE /\ ev' = Reply(e, Err(404, "InvalidRequest", "Session not found"))
                   /\ UNCHANGED terminated_ok
           /\ inflight' = inflight (-) One(t)
    /\ UNCHANGED <<sessions, event_counter, uuid_count, known, notified, nreq, fixed>>

(***************************************************************************)
(* Legacy transport: GET /sse and POST /messages                           *)
(***************************************************************************)
\* a GET /sse that enters its channel before the two checks
legacy_sse_mut(headers) ==
    /\ nreq < env.requests
    /\ BagCardinality(streams) < MaxStreams
    /\ Unlocked("sse_channels")
    /\ nreq' = nreq + 1
    /\ LET origin == validate_origin(headers, security)
           authn == validate_auth(headers, auth)
           session_id == UuidStr("stream", uuid_count.stream + 1)
           e == RecvEv("legacy_sse", "GET /sse", headers, header_str(headers.session),
                       NoBody, None)
       IN  /\ uuid_count' = [uuid_count EXCEPT !.stream = @ + 1]
           /\ sse_channels' = sse_channels \cup {session_id}
           /\ IF ~origin.ok
              THEN /\ ev' = Reply(e, origin)
                   /\ UNCHANGED <<streams, known>>
              ELSE IF ~authn.ok
              THEN /\ ev' = Reply(e, authn)
                   /\ UNCHANGED <<streams, known>>
              ELSE /\ streams' = streams (+) One(
                          NewStream("sse", session_id, FALSE,
                                    SseEvent("endpoint", None, None,
                                             Some(<<"/messages?sessionId=">> \o session_id))))
                   /\ known' = known \cup {session_id}
                   /\ ev' = [e EXCEPT !.status = 200, !.sess_hdr = Some(session_id)]
    /\ UNCHANGED <<sessions, event_counter, inflight, notified, terminated_ok, fixed>>

legacy_sse(headers) ==
    /\ nreq < env.requests
    /\ BagCardinality(streams) < MaxStreams
    /\ Admitted(headers) => Unlocked("sse_channels")
    /\ nreq' = nreq + 1
    /\ LET origin == validate_origin(headers, security)
           authn == validate_auth(headers, auth)
           session_id == UuidStr("stream", uuid_count.stream + 1)
           e == RecvEv("legacy_sse", "GET /sse", headers, header_str(headers.session),
                       NoBody, None)
       IN  IF ~origin.ok
           THEN /\ ev' = Reply(e, origin)
                /\ UNCHANGED <<sse_channels, streams, uuid_count, known>>
           ELSE IF ~authn.ok
           THEN /\ ev' = Reply(e, authn)
                /\ UNCHANGED <<sse_channels, streams, uuid_count, known>>
           ELSE /\ uuid_count' = [uuid_count EXCEPT !.stream = @ + 1]
                /\ sse_channels' = sse_channels \cup {session_id}
                /\ streams' = streams (+) One(
                       NewStream("sse", session_id, FALSE,
                                 SseEvent("endpoint", None, None,
                                          Some(<<"/messages?sessionId=">> \o session_id))))
                /\ known' = known \cup {session_id}
                /\ ev' = [e EXCEPT !.status = 200, !.sess_hdr = Some(session_id)]
    /\ UNCHANGED <<sessions, event_counter, inflight, notified, terminated_ok, fixed>>

\* the request arrives and the handler goes straight into handle_jsonrpc
legacy_messages(query, headers, body) ==
    /\ CanReceive
    /\ nreq' = nreq + 1
    /\ LET origin == validate_origin(headers, security)
           authn == validate_auth(headers, auth)
           session == IF IsSome(query) THEN query ELSE header_str(headers.session)
           e == RecvEv("legacy_messages", "POST /messages", headers, session, body,
                       Get(sessions, session))
           t == NewTask("jsonrpc", "POST /messages", session, body)
           quiet == UNCHANGED <<sessions, event_counter, sse_channels, uuid_count,
                                notified, inflight, known>>
       IN  IF ~body.json
           THEN ev' = Reply(e, JsonRejection) /\ quiet
           ELSE IF ~origin.ok
           THEN ev' = Reply(e, origin) /\ quiet
           ELSE IF ~authn.ok
           THEN ev' = Reply(e, authn) /\ quiet
           ELSE handle_jsonrpc(EmptyBag, t, e)
    /\ UNCHANGED <<streams, terminated_ok, fixed>>

\* the envelope goes out on the channel of the request's session id, if it has one
publish(t) ==
    /\ BagIn(t, inflight)
    /\ t.pc = "publish"
    /\ Unlocked("sse_channels")
    /\ LET sess == Unwrap(t.session)
           resp == Unwrap(t.maybe_resp)
       IN  /\ streams' = IF sess \in sse_channels
                         THEN send(streams, sess, resp)
                         ELSE streams
           /\ ev' = [TaskEv("publish", t) EXCEPT !.status = 202]
           /\ inflight' = inflight (-) One(t)
    /\ UNCHANGED <<sessions, event_counter, sse_channels, uuid_count, known, notified,
                   terminated_ok, nreq, fixed>>

(***************************************************************************)
(* The SSE streams                                                         *)
(***************************************************************************)
\* the stream is polled and yields the next message of its receiver
stream_message(s) ==
    /\ BagIn(s, streams)
    /\ s.open
    /\ s.queue # <<>>
    /\ LET v == Head(s.queue)
           minted == s.kind = "mcp" /\ s.has_state
           random == s.kind = "mcp" /\ ~s.has_state
           event_id == IF minted THEN Some(next_event_id(s.sid, event_counter[s.sid]))
                       ELSE IF random THEN Some(UuidStr("event", uuid_count.event + 1))
                       ELSE None
       IN  /\ event_counter' = IF minted
                               THEN [event_counter EXCEPT ![s.sid] = fetch_add(@)]
                               ELSE event_counter
           /\ uuid_count' = IF random THEN [uuid_count EXCEPT !.event = @ + 1]
                            ELSE uuid_count
           /\ streams' = (streams (-) One(s)) (+) One(
                  [s EXCEPT !.queue = Tail(s.queue),
                            !.events = Append(s.events,
                                SseEvent("message", event_id, Some(v), None))])
    /\ ev' = [NoEv EXCEPT !.op = "stream_message"]
    /\ UNCHANGED <<sessions, sse_channels, inflight, known, notified, terminated_ok,
                   nreq, fixed>>

keepalive_merged_mut(kind) == FALSE

\* GET /mcp: keepalive.merge(stream) ends when both have ended, and the interval
\* stream never ends; GET /sse chains the receiver alone after the endpoint event
keepalive_merged(kind) == kind = "mcp"

\* GET /sse: endpoint_event.chain(stream) ends when the receiver reports Closed
legacy_stream_ends(s) ==
    /\ BagIn(s, streams)
    /\ ~keepalive_merged(s.kind)
    /\ s.open
    /\ s.queue = <<>>
    /\ ~s.attached
    /\ streams' = (streams (-) One(s)) (+) One([s EXCEPT !.open = FALSE])
    /\ ev' = [NoEv EXCEPT !.op = "legacy_stream_ends"]
    /\ UNCHANGED <<sessions, event_counter, sse_channels, inflight, uuid_count, known,
                   notified, terminated_ok, nreq, fixed>>

(***************************************************************************)
(* Specifications                                                          *)
(***************************************************************************)
NoArg == [headers |-> Headers(None, None, None, None), session |-> None]

NoRet == [fn |-> "none", res |-> Ok]

(***************************************************************************)
(* The configuration manager: JSON values, their text, the files           *)
(***************************************************************************)
\* serde_json::Value: a string, an array of values, or an object, whose
\* members (key, value) are kept in the order of their keys
JString(s) == [type |-> "string", s |-> s, items |-> <<>>]

JArray(items) == [type |-> "array", s |-> "", items |-> items]

JObject(members) == [type |-> "object", s |-> "", items |-> members]

Member(k, v) == [k |-> k, v |-> v]

is_object(v) == v.type = "object"

is_array(v) == v.type = "array"

\* a get that finds no member
get_mut(v, key) == None

\* Value::get(key): the member of an object with that key
get(v, key) ==
    IF is_object(v) /\ \E i \in 1..Len(v.items) : v.items[i].k = key
    THEN Some(v.items[CHOOSE i \in 1..Len(v.items) : v.items[i].k = key].v)
    ELSE None

\* .and_then(|v| v.as_array())


and_then_as_array(o) ==
    IF IsSome(o) /\ is_array(Unwrap(o)) THEN Some(Unwrap(o)) ELSE None

\* the text of a file, token by token
Tok(t, s) == [t |-> t, s |-> s]

\* items joined with commas
RECURSIVE Joined(_)
Joined(texts) ==
    IF Len(texts) = 0 THEN <<>>
    ELSE IF Len(texts) = 1 THEN texts[1]
    ELSE texts[1] \o <<Tok(",", "")>> \o Joined(Tail(texts))

\* serde_json::to_string_pretty
RECURSIVE to_string_pretty(_)
to_string_pretty(v) ==
    IF v.type = "string" THEN <<Tok("str", v.s)>>
    ELSE IF v.type = "array"
    THEN <<Tok("[", "")>>
         \o Joined([i \in 1..Len(v.items) |-> to_string_pretty(v.items[i])])
         \o <<Tok("]", "")>>
    ELSE <<Tok("{", "")>>
         \o Joined([i \in 1..Len(v.items) |->
                       <<Tok("str", v.items[i].k), Tok(":", "")>>
                       \o to_string_pretty(v.items[i].v)])
         \o <<Tok("}", "")>>

Parsed(v, next) == [ok |-> TRUE, v |-> v, next |-> next]

NotParsed == [ok |-> FALSE, v |-> JString(""), next |-> 0]

\* the parser of serde_json::from_str: a value starting at token i, the
\* elements of an array after `[`, the members of an object after `{`
RECURSIVE parse_value(_, _)
RECURSIVE parse_elements(_, _, _)
RECURSIVE parse_members(_, _, _)
parse_value(text, i) ==
    IF i > Len(text) THEN NotParsed
    ELSE IF text[i].t = "str" THEN Parsed(JString(text[i].s), i + 1)
    ELSE IF text[i].t = "["
    THEN IF i + 1 <= Len(text) /\ text[i + 1].t = "]"
         THEN Parsed(JArray(<<>>), i + 2)
         ELSE parse_elements(text, i + 1, <<>>)
    ELSE IF text[i].t = "{"
    THEN IF i + 1 <= Len(text) /\ text[i + 1].t = "}"
         THEN Parsed(JObject(<<>>), i + 2)
         ELSE parse_members(text, i + 1, <<>>)
    ELSE NotParsed

parse_elements(text, i, acc) ==
    LET r == parse_value(text, i)
    IN  IF ~r.ok \/ r.next > Len(text) THEN NotParsed
        ELSE IF text[r.next].t = ","
        THEN parse_elements(text, r.next + 1, Append(acc, r.v))
        ELSE IF text[r.next].t = "]"
        THEN Parsed(JArray(Append(acc, r.v)), r.next + 1)
        ELSE NotParsed

parse_members(text, i, acc) ==
    IF i + 2 > Len(text) \/ text[i].t # "str" \/ text[i + 1].t # ":" THEN NotParsed
    ELSE LET r == parse_value(text, i + 2)
         IN  IF ~r.ok \/ r.next > Len(text) THEN NotParsed
             ELSE IF text[r.next].t = ","
             THEN parse_members(text, r.next + 1, Append(acc, Member(text[i].s, r.v)))
             ELSE IF text[r.next].t = "}"
             THEN Parsed(JObject(Append(acc, Member(text[i].s, r.v))), r.next + 1)
             ELSE NotParsed

\* serde_json::from_str: the value, if the whole text is one value
from_str(text) ==
    LET r == parse_value(text, 1)
    IN  IF r.ok /\ r.next = Len(text) + 1 THEN Some(r.v) ELSE None

\* the four configuration files of the config directory
ConfigKinds == {"instances", "tools", "prompts", "server"}

\* an empty config directory
NoFiles == [kind \in ConfigKinds |-> None]

\* ServerCompat::new: initialized is false; no HTTP session yet; nothing sent
NoCompat ==
    [http |-> EmptyMap, stdio |-> [initialized |-> FALSE], sent |-> <<>>,
     rejected |-> [http |-> FALSE, stdio |-> FALSE]]

InitServer ==
    /\ sessions = EmptyMap
    /\ event_counter = EmptyMap
    /\ sse_channels = {}
    /\ streams = EmptyBag
    /\ inflight = EmptyBag
    /\ uuid_count = [session |-> 0, stream |-> 0, event |-> 0]
    /\ nreq = 0
    /\ known = {}
    /\ notified = {}
    /\ terminated_ok = <<>>
    /\ ev = NoEv
    /\ event_buffer = <<>>
    /\ stored = 0
    /\ compat = NoCompat
    /\ files = NoFiles
    /\ instances_cache = JObject(<<>>)

\* create_app: SecurityConfig::default() and AuthConfig::disabled(); clients
\* that follow the protocol, up to MaxInflight requests at a time
Init ==
    /\ InitServer
    /\ security = [allowed_origins |-> None]
    /\ auth = [enabled |-> FALSE, bearer_token |-> None]
    /\ env = [requests |-> MaxRequests, inflight |-> MaxInflight, wild |-> FALSE,
             other |-> FALSE]
    /\ arg = NoArg
    /\ ret = NoRet

Next ==
    \/ \E h \in HeaderChoices, b \in Bodies : mcp_post(h, b)
    \/ \E h \in HeaderChoices : mcp_get(h)
    \/ \E h \in HeaderChoices : mcp_delete(h)
    \/ \E h \in HeaderChoices : legacy_sse(h)
    \/ \E q \in QueryChoices, h \in HeaderChoices, b \in Bodies : legacy_messages(q, h, b)
    \/ \E t \in BagToSet(inflight) : mcp_post_jsonrpc(t)
    \/ \E t \in BagToSet(inflight), succeeded \in BOOLEAN : handler_returns(t, succeeded)
    \/ \E t \in BagToSet(inflight) : delete_channel(t)
    \/ \E t \in BagToSet(inflight) : publish(t)
    \/ \E s \in BagToSet(streams) : stream_message(s)
    \/ \E s \in BagToSet(streams) : legacy_stream_ends(s)

Spec == Init /\ [][Next]_vars

\* What the server does by itself once a request is in: the tokio runtime keeps
\* polling every spawned handler, the external handler returns, and a client
\* that holds a stream keeps reading it.
Progress ==
    \/ \E t \in BagToSet(inflight) : mcp_post_jsonrpc(t)
    \/ \E t \in BagToSet(inflight), succeeded \in BOOLEAN : handler_returns(t, succeeded)
    \/ \E t \in BagToSet(inflight) : delete_channel(t)
    \/ \E t \in BagToSet(inflight) : publish(t)
    \/ \E s \in BagToSet(streams) : stream_message(s)
    \/ \E s \in BagToSet(streams) : legacy_stream_ends(s)

SpecLive == Init /\ [][Next]_vars /\ WF_vars(Progress)

(***************************************************************************)
(* Fan-out: one channel, a client that holds its GET /sse stream and reads *)
(* every response before it posts again, and a second subscriber (a GET    *)
(* /mcp stream opened with the same id) that reads when it pleases         *)
(***************************************************************************)
MaxLost == 2

MaxPublished == CHANNEL_CAPACITY + MaxLost

\* GET /sse has minted the id, GET /mcp has been opened with that id
SetupRequests == 2

InitFan ==
    LET session_id == UuidStr("stream", 1)
    IN  /\ sessions = EmptyMap
        /\ event_counter = EmptyMap
        /\ sse_channels = {session_id}
        /\ streams =
               One(NewStream("sse", session_id, FALSE,
                             SseEvent("endpoint", None, None,
                                      Some(<<"/messages?sessionId=">> \o session_id))))
               (+) One(NewStream("mcp", session_id, FALSE,
                                 SseEvent("connected", Some(session_id \o <<":", "0">>),
                                          None, None)))
        /\ inflight = EmptyBag
        /\ uuid_count = [session |-> 0, stream |-> 1, event |-> 0]
        /\ nreq = SetupRequests
        /\ known = {session_id}
        /\ notified = {}
        /\ terminated_ok = <<>>
        /\ ev = [NoEv EXCEPT !.op = "mcp_get", !.ep = "GET /mcp",
                             !.session = Some(session_id), !.status = 200]
        /\ security = [allowed_origins |-> None]
        /\ auth = [enabled |-> FALSE, bearer_token |-> None]
        /\ env = [requests |-> SetupRequests + MaxPublished, inflight |-> 1,
                  wild |-> FALSE, other |-> FALSE]
        /\ arg = NoArg
        /\ ret = NoRet
        /\ event_buffer = <<>>
        /\ stored = 0
        /\ compat = NoCompat
        /\ files = NoFiles
        /\ instances_cache = JObject(<<>>)

\* POST /messages?sessionId=sess with the client's next request, numbered by
\* the requests sent so far, when the handler succeeds: handle_jsonrpc returns
\* the success envelope and tx.send(resp) puts it on the channel of sess.  The
\* client holding the GET /sse stream posts once it has read its stream.
legacy_messages_ok(sess) ==
    /\ nreq < env.requests
    /\ \A s \in BagToSet(streams) : s.kind = "sse" => s.queue = <<>>
    /\ nreq' = nreq + 1
    /\ LET id == ToString(nreq + 1)
           resp == Success(id, HandlerResult)
       IN  /\ streams' = IF sess \in sse_channels THEN send(streams, sess, resp)
                         ELSE streams
           /\ ev' = [NoEv EXCEPT !.op = "legacy_messages", !.ep = "POST /messages",
                                 !.session = Some(sess), !.method = Some("tools/list"),
                                 !.id = Some(id), !.status = 202, !.calls = 1,
                                 !.outcome = "ok"]
    /\ UNCHANGED <<sessions, event_counter, sse_channels, inflight, uuid_count, known,
                   notified, terminated_ok, fixed>>

NextFan ==
    \/ \E sess \in known : legacy_messages_ok(sess)
    \/ \E s \in BagToSet(streams) : stream_message(s)

SpecFan == InitFan /\ [][NextFan]_vars

(***************************************************************************)
(* The server under each configuration of its security checks, with        *)
(* clients that send anything, one request at a time                       *)
(***************************************************************************)
MaxSecRequests == 2

\* SecurityConfig: validation disabled, localhost only, an allow-list
SecurityConfigs ==
    {[allowed_origins |-> None],
     [allowed_origins |-> Some(<<>>)],
     [allowed_origins |-> Some(<<Https \o ExampleCom>>)]}

\* AuthConfig: disabled, enabled with a token, enabled without one
AuthConfigs ==
    {[enabled |-> FALSE, bearer_token |-> None],
     [enabled |-> TRUE, bearer_token |-> Some(Secret)],
     [enabled |-> TRUE, bearer_token |-> None]}

InitSec ==
    /\ InitServer
    /\ security \in SecurityConfigs
    /\ auth \in AuthConfigs
    /\ env = [requests |-> MaxSecRequests, inflight |-> 1, wild |-> TRUE, other |-> FALSE]
    /\ arg = NoArg
    /\ ret = NoRet

SpecSec == InitSec /\ [][Next]_vars

\* the server with both checks switched on: an allow-list of origins, and
\* auth enabled with a token or without one
InitReject ==
    /\ InitServer
    /\ security = [allowed_origins |-> Some(<<Https \o ExampleCom>>)]
    /\ auth \in {a \in AuthConfigs : a.enabled}
    /\ env = [requests |-> MaxSecRequests, inflight |-> 1, wild |-> TRUE, other |-> FALSE]
    /\ arg = NoArg
    /\ ret = NoRet

SpecReject == InitReject /\ [][Next]_vars

(***************************************************************************)
(* The server as create_app makes it, with clients that also send messages *)
(* that are malformed or out of the ordinary                               *)
(***************************************************************************)
MaxAnyRequests == 3

InitAny ==
    /\ InitServer
    /\ security = [allowed_origins |-> None]
    /\ auth = [enabled |-> FALSE, bearer_token |-> None]
    /\ env = [requests |-> MaxAnyRequests, inflight |-> MaxInflight, wild |-> FALSE,
              other |-> TRUE]
    /\ arg = NoArg
    /\ ret = NoRet

SpecAny == InitAny /\ [][Next]_vars

(***************************************************************************)
(* The validation functions on their own: Init draws a configuration and   *)
(* the headers of one request, the actions apply a function to them        *)
(***************************************************************************)
Lowercase == <<"b", "e", "a", "r", "e", "r", " ">>

PureOrigins ==
    {None,
     Some(Http \o Localhost),
     Some(Http \o Loopback4 \o <<":", "8", "0">>),
     Some(Http \o Loopback6),
     Some(Http \o Localhost \o <<".">> \o EvilCom),
     Some(Https \o ExampleCom),
     Some(Https \o ExampleCom \o <<"/">>),
     Some(Https \o OtherCom),
     Some(Http \o EvilCom),
     Some(Https \o ExampleCom \o <<"0xE9">>),
     Some(Http \o <<"0xE9">> \o EvilCom)}

PureSecurityConfigs ==
    SecurityConfigs \cup {[allowed_origins |-> Some(<<Https \o ExampleCom, Https \o OtherCom>>)]}

PureAuthorizations ==
    {None,
     Some(Bearer \o Secret),
     Some(Bearer \o Wrong),
     Some(Bearer \o Secret \o <<"x">>),
     Some(Bearer),
     Some(Bearer \o <<" ">> \o Secret),
     Some(Lowercase \o Secret),
     Some(Basic \o Secret),
     Some(Secret),
     Some(Bearer \o Secret \o <<"0xE9">>),
     Some(Bearer \o <<"0xE9">>)}

PureAuthConfigs == AuthConfigs \cup {[enabled |-> FALSE, bearer_token |-> Some(Secret)]}

PureVersions ==
    {None, Some(UnknownVersion), Some(<<"2030-01-01">>),
     Some(DEFAULT_PROTOCOL_VERSION \o <<"0xE9">>), Some(<<"0xE9">>)}
        \cup {Some(v) : v \in known_versions}

\* the session the version is checked against: none, or one that negotiated a
\* recognized version or any other text (initialize accepts whatever is asked)
PureSessions ==
    {None, Some(SessionState_new(DEFAULT_PROTOCOL_VERSION)),
     Some(SessionState_new(UnknownVersion))}

InitPure ==
    /\ InitServer
    /\ env = [requests |-> 0, inflight |-> 0, wild |-> FALSE, other |-> FALSE]
    /\ ret = NoRet
    /\ \/ /\ security \in PureSecurityConfigs
          /\ auth = [enabled |-> FALSE, bearer_token |-> None]
          /\ arg \in {[headers |-> Headers(o, None, None, None), session |-> None] :
                        o \in PureOrigins}
       \/ /\ security = [allowed_origins |-> None]
          /\ auth \in PureAuthConfigs
          /\ arg \in {[headers |-> Headers(None, a, None, None), session |-> None] :
                        a \in PureAuthorizations}
       \/ /\ security = [allowed_origins |-> None]
          /\ auth = [enabled |-> FALSE, bearer_token |-> None]
          /\ arg \in {[headers |-> Headers(None, None, v, None), session |-> st] :
                        v \in PureVersions, st \in PureSessions}

apply_validate_origin ==
    /\ ret' = [fn |-> "validate_origin", res |-> validate_origin(arg.headers, security)]
    /\ UNCHANGED <<security, auth, env, arg, sessions, event_counter, sse_channels,
                   streams, inflight, uuid_count, nreq, known, notified, terminated_ok, ev,
                   event_buffer, stored, compat,
                   files, instances_cache>>

apply_validate_auth ==
    /\ ret' = [fn |-> "validate_auth", res |-> validate_auth(arg.headers, auth)]
    /\ UNCHANGED <<security, auth, env, arg, sessions, event_counter, sse_channels,
                   streams, inflight, uuid_count, nreq, known, notified, terminated_ok, ev,
                   event_buffer, stored, compat,
                   files, instances_cache>>

apply_validate_protocol_version ==
    /\ ret' = [fn |-> "validate_protocol_version",
               res |-> validate_protocol_version(arg.headers, arg.session)]
    /\ UNCHANGED <<security, auth, env, arg, sessions, event_counter, sse_channels,
                   streams, inflight, uuid_count, nreq, known, notified, terminated_ok, ev,
                   event_buffer, stored, compat,
                   files, instances_cache>>

NextPure ==
    \/ apply_validate_origin
    \/ apply_validate_auth
    \/ apply_validate_protocol_version

SpecPure == InitPure /\ [][NextPure]_vars

(***************************************************************************)
(* The event buffer of a session state, under store_event and              *)
(* get_events_after                                                        *)
(***************************************************************************)
MAX_EVENT_BUFFER_SIZE == 100

MaxEvicted == 2

MaxStored == MAX_EVENT_BUFFER_SIZE + MaxEvicted

StoredEvent(id, data) == [id |-> id, data |-> data]

store_event_mut(buffer, event) ==
    Append(IF Len(buffer) > MAX_EVENT_BUFFER_SIZE THEN Tail(buffer) ELSE buffer, event)

\* if buffer.len() >= MAX_EVENT_BUFFER_SIZE { pop_front() }; push_back(event)
store_event(buffer, event) ==
    Append(IF Len(buffer) >= MAX_EVENT_BUFFER_SIZE THEN Tail(buffer) ELSE buffer, event)

get_events_after_mut(buffer, last_event_id) ==
    LET at == {i \in 1..Len(buffer) : buffer[i].id = last_event_id}
    IN  IF at = {} THEN <<>>
        ELSE SubSeq(buffer, CHOOSE i \in at : \A j \in at : i <= j, Len(buffer))

\* for event in buffer.iter(): once found, push the event; else found is set
\* when event.id == last_event_id.  The loop returns what follows the first
\* event with that id, and nothing when there is none.
get_events_after(buffer, last_event_id) ==
    LET at == {i \in 1..Len(buffer) : buffer[i].id = last_event_id}
    IN  IF at = {} THEN <<>>
        ELSE SubSeq(buffer, (CHOOSE i \in at : \A j \in at : i <= j) + 1, Len(buffer))

\* the k-th event stored: the ids are minted by next_event_id, so no two are equal
NthEvent(k) == StoredEvent(next_event_id(<<"s">>, k - 1), ToString(k))

\* the ids asked for: the oldest and the newest event of the buffer, their
\* neighbours, the last evicted one, one never stored
AskedIds ==
    {next_event_id(<<"s">>, k - 1) :
        k \in {stored - Len(event_buffer), stored - Len(event_buffer) + 1,
               stored - Len(event_buffer) + 2, stored - 1, stored, stored + 1}
              \cap 1..(MaxStored + 1)}

InitBuffer ==
    /\ InitServer
    /\ security = [allowed_origins |-> None]
    /\ auth = [enabled |-> FALSE, bearer_token |-> None]
    /\ env = [requests |-> 0, inflight |-> 0, wild |-> FALSE, other |-> FALSE]
    /\ arg = NoArg
    /\ ret = NoRet

apply_store_event(event) ==
    /\ stored < MaxStored
    /\ event_buffer' = store_event(event_buffer, event)
    /\ stored' = stored + 1
    /\ arg' = [event |-> event]
    /\ ret' = [fn |-> "store_event", res |-> Ok]
    /\ UNCHANGED <<security, auth, env, sessions, event_counter, sse_channels,
                   streams, inflight, uuid_count, nreq, known, notified, terminated_ok, ev,
                   compat,
                   files, instances_cache>>

apply_get_events_after(last_event_id) ==
    /\ arg' = [last_event_id |-> last_event_id]
    /\ ret' = [fn |-> "get_events_after",
               res |-> get_events_after(event_buffer, last_event_id)]
    /\ UNCHANGED <<security, auth, env, sessions, event_counter, sse_channels,
                   streams, inflight, uuid_count, nreq, known, notified, terminated_ok, ev,
                   event_buffer, stored, compat,
                   files, instances_cache>>

NextBuffer ==
    \/ apply_store_event(NthEvent(stored + 1))
    \/ \E last_event_id \in AskedIds : apply_get_events_after(last_event_id)

SpecBuffer == InitBuffer /\ [][NextBuffer]_vars

(***************************************************************************)
(* The handshake gate of the HTTP transport next to that of the stdio      *)
(* runtime (ServerCompat): one HTTP session and one stdio connection get   *)
(* the same messages, the first of them an initialize                      *)
(***************************************************************************)
MaxMessages == 5

\* the id of the HTTP session of the comparison
CompatSid == UuidStr("session", 1)

\* handle_jsonrpc for the message on the session: whether it is answered
\* ServerNotInitialized, and the session registry afterwards
http_gating(sess, body) ==
    IF body.method = Some("initialize")
    THEN [rejected |-> FALSE,
          sess |-> Insert(sess, CompatSid,
                          SessionState_new(
                              cursor_initialize_result(body.pv, protocol_version_default)[2]))]
    ELSE IF body.method = Some("initialized")
    THEN [rejected |-> FALSE, sess |-> set_initialized(sess, CompatSid)]
    ELSE [rejected |-> gate(Get(sess, Some(CompatSid))), sess |-> sess]

\* ServerCompat::start and handle_request for the message: a notification
\* `initialized` sets the flag and other notifications are ignored; a request
\* other than initialize is answered ServerNotInitialized while the flag is
\* false; initialize is answered with a result or with InvalidRequest
stdio_gating(st, body) ==
    IF body.id = None
    THEN [rejected |-> FALSE,
          st |-> IF body.method = Some("initialized")
                 THEN [st EXCEPT !.initialized = TRUE]
                 ELSE st]
    ELSE IF body.method = Some("initialize")
    THEN [rejected |-> FALSE, st |-> st]
    ELSE [rejected |-> ~st.initialized, st |-> st]

InitCompat ==
    /\ InitServer
    /\ security = [allowed_origins |-> None]
    /\ auth = [enabled |-> FALSE, bearer_token |-> None]
    /\ env = [requests |-> 0, inflight |-> 0, wild |-> FALSE, other |-> FALSE]
    /\ arg = NoArg
    /\ ret = NoRet

\* the next message goes to both
send_both(body) ==
    /\ Len(compat.sent) < MaxMessages
    /\ compat.sent = <<>> => body.method = Some("initialize")
    /\ LET h == http_gating(compat.http, body)
           c == stdio_gating(compat.stdio, body)
       IN  compat' = [http |-> h.sess, stdio |-> c.st,
                      sent |-> Append(compat.sent, body),
                      rejected |-> [http |-> h.rejected, stdio |-> c.rejected]]
    /\ UNCHANGED <<security, auth, env, arg, ret, sessions, event_counter, sse_channels,
                   streams, inflight, uuid_count, nreq, known, notified, terminated_ok, ev,
                   event_buffer, stored, files, instances_cache>>

NextCompat == \E body \in WellFormedBodies : send_both(body)

SpecCompat == InitCompat /\ [][NextCompat]_vars

(***************************************************************************)
(* The configuration manager: load and save                                *)
(***************************************************************************)
\* calls made to the configuration manager in one run
MaxCalls == 3

\* what fs::write can do: replace the content, fail leaving the file as it
\* was, or fail after File::create has truncated (or created) the file
WriteOutcomes == {"ok", "unchanged", "truncated"}

\* the outcomes of the file operations of one save: the read of the backup,
\* the write, the read-back and the write of the backup; an operation the
\* save does not reach is left at success
Faults ==
    {f \in [backup : BOOLEAN, write : WriteOutcomes, read : BOOLEAN,
            restore : WriteOutcomes] :
        /\ f.write # "ok" => f.read
        /\ (f.write = "ok" /\ f.read) => f.restore = "ok"
        /\ ~f.backup => f.restore = "ok"}

\* std::fs::write
fs_write(fs, kind, text, outcome) ==
    IF outcome = "ok" THEN [fs EXCEPT ![kind] = Some(text)]
    ELSE IF outcome = "truncated" THEN [fs EXCEPT ![kind] = Some(<<>>)]
    ELSE fs

backup_file(fs, kind, f) ==
    IF IsSome(fs[kind]) /\ f.backup THEN fs[kind] ELSE None

\* ConfigResult::ok, ConfigResult::error and with_rollback
ConfigResult(success, rollback_performed) ==
    [success |-> success, rollback_performed |-> rollback_performed]

\* the part the four saves share: backup, write, read-back, restore.
\* save_instances (strict) also fails when the written file cannot be read
\* back, or is invalid and there is no backup
save_file(fs, kind, json_str, f, strict) ==
    LET backup == backup_file(fs, kind, f)
        written == fs_write(fs, kind, json_str, f.write)
        restored == IF IsSome(backup)
                    THEN fs_write(written, kind, Unwrap(backup), f.restore)
                    ELSE written
        content == IF f.read THEN written[kind] ELSE None
    IN  IF f.write # "ok"
        THEN [files |-> restored, result |-> ConfigResult(FALSE, IsSome(backup))]
        ELSE IF IsSome(content) /\ from_str(Unwrap(content)) = None
        THEN IF IsSome(backup)
             THEN [files |-> restored, result |-> ConfigResult(FALSE, TRUE)]
             ELSE [files |-> written, result |-> ConfigResult(~strict, FALSE)]
        ELSE IF content = None /\ strict /\ IsSome(backup)
        THEN [files |-> restored, result |-> ConfigResult(FALSE, TRUE)]
        ELSE [files |-> written, result |-> ConfigResult(TRUE, FALSE)]

Refused(fs) == [files |-> fs, result |-> ConfigResult(FALSE, FALSE)]

\* update_instances, update_tools, update_prompts, update_server: the answer
update_response(result) ==
    IF result.success
    THEN [status |-> 200, body |-> {"status", "message"}]
    ELSE [status |-> 400, body |-> {"error", "rollback"}]

\* one call: what it was given and found, what it returned
Called(fn, kind, config, res) ==
    /\ nreq < env.requests
    /\ nreq' = nreq + 1
    /\ arg' = [fn |-> fn, config |-> config, file |-> files[kind],
               instances_cache |-> instances_cache]
    /\ ret' = [fn |-> fn, res |-> res]
    /\ UNCHANGED <<security, auth, env, sessions, event_counter, sse_channels,
                   streams, inflight, uuid_count, known, notified, terminated_ok,
                   ev, event_buffer, stored, compat>>

Loaded(v) == [ok |-> TRUE, value |-> v]

NotLoaded == [ok |-> FALSE, value |-> JString("")]

save_instances(config, f) ==
    LET r == IF ~is_object(config) THEN Refused(files)
             ELSE save_file(files, "instances", to_string_pretty(config), f, TRUE)
    IN  /\ files' = r.files
        /\ instances_cache' = IF r.result.success THEN config ELSE instances_cache
        /\ Called("save_instances", "instances", config,
                  [result |-> r.result, response |-> update_response(r.result),
                   faults |-> f])

load_instances ==
    LET config == IF IsSome(files["instances"])
                  THEN from_str(Unwrap(files["instances"]))
                  ELSE Some(JObject(<<>>))
    IN  /\ instances_cache' = IF IsSome(files["instances"]) /\ IsSome(config)
                              THEN Unwrap(config) ELSE instances_cache
        /\ Called("load_instances", "instances", JString(""),
                  IF IsSome(config) THEN Loaded(Unwrap(config)) ELSE NotLoaded)
        /\ UNCHANGED files

get_instances ==
    /\ Called("get_instances", "instances", JString(""), Loaded(instances_cache))
    /\ UNCHANGED <<files, instances_cache>>

\* save_tools and save_prompts: the array, bare or under its key, is written
\* under its key
save_array(fn, kind, config, f) ==
    LET array == IF is_array(config) THEN Some(config)
                 ELSE and_then_as_array(get(config, kind))
        r == IF array = None THEN Refused(files)
             ELSE save_file(files, kind,
                            to_string_pretty(JObject(<<Member(kind, Unwrap(array))>>)),
                            f, FALSE)
    IN  /\ files' = r.files
        /\ Called(fn, kind, config,
                  [result |-> r.result, response |-> update_response(r.result),
                   faults |-> f])
        /\ UNCHANGED instances_cache

\* load_tools and load_prompts
load_array(fn, kind) ==
    LET config == IF IsSome(files[kind]) THEN from_str(Unwrap(files[kind]))
                  ELSE Some(JArray(<<>>))
        array == IF config = None THEN None
                 ELSE IF IsSome(and_then_as_array(get(Unwrap(config), kind)))
                 THEN and_then_as_array(get(Unwrap(config), kind))
                 ELSE IF is_array(Unwrap(config)) THEN config
                 ELSE None
    IN  /\ Called(fn, kind, JString(""),
                  IF IsSome(array) THEN Loaded(Unwrap(array)) ELSE NotLoaded)
        /\ UNCHANGED <<files, instances_cache>>

save_tools(config, f) == save_array("save_tools", "tools", config, f)

load_tools == load_array("load_tools", "tools")

save_prompts(config, f) == save_array("save_prompts", "prompts", config, f)

load_prompts == load_array("load_prompts", "prompts")

save_server(config, f) ==
    LET r == IF ~is_object(config) THEN Refused(files)
             ELSE save_file(files, "server", to_string_pretty(config), f, FALSE)
    IN  /\ files' = r.files
        /\ Called("save_server", "server", config,
                  [result |-> r.result, response |-> update_response(r.result),
                   faults |-> f])
        /\ UNCHANGED instances_cache

load_server ==
    LET config == IF IsSome(files["server"]) THEN from_str(Unwrap(files["server"]))
                  ELSE Some(JObject(<<>>))
    IN  /\ Called("load_server", "server", JString(""),
                  IF IsSome(config) THEN Loaded(Unwrap(config)) ELSE NotLoaded)
        /\ UNCHANGED <<files, instances_cache>>

\* what clients submit: instance maps, tool and prompt lists bare or under
\* their key, a server description, and payloads of the wrong shape
Production ==
    JObject(<<Member("production",
                     JObject(<<Member("db", JString("prod")),
                               Member("url", JString("http://prod:8069"))>>))>>)

Tool(name) == JObject(<<Member("name", JString(name))>>)

InstancesPayloads == {JObject(<<>>), Production, JArray(<<JString("not an object")>>)}

ToolsPayloads ==
    {JArray(<<Tool("tool1")>>),
     JObject(<<Member("tools", JArray(<<Tool("tool2"), Tool("tool3")>>))>>),
     JObject(<<Member("tools", JString("not an array"))>>)}

PromptsPayloads ==
    {JArray(<<>>),
     JObject(<<Member("extra", JString("kept out")),
               Member("prompts", JArray(<<Tool("prompt1")>>))>>),
     JString("not an array")}

ServerPayloads == {JObject(<<Member("serverName", JString("odoo"))>>), JArray(<<>>)}

\* ConfigManager::new on an empty directory
InitConfig ==
    /\ InitServer
    /\ security = [allowed_origins |-> None]
    /\ auth = [enabled |-> FALSE, bearer_token |-> None]
    /\ env = [requests |-> MaxCalls, inflight |-> 0, wild |-> FALSE, other |-> FALSE]
    /\ arg = NoArg
    /\ ret = NoRet

NextConfig ==
    \/ \E config \in InstancesPayloads, f \in Faults : save_instances(config, f)
    \/ load_instances
    \/ get_instances
    \/ \E config \in ToolsPayloads, f \in Faults : save_tools(config, f)
    \/ load_tools
    \/ \E config \in PromptsPayloads, f \in Faults : save_prompts(config, f)
    \/ load_prompts
    \/ \E config \in ServerPayloads, f \in Faults : save_server(config, f)
    \/ load_server

SpecConfig == InitConfig /\ [][NextConfig]_vars


(***************************************************************************)
(* Session lifecycle: handshake, lifetime, termination                     *)
(***************************************************************************)
\* C1: after a successful initialize the new session is negotiating
\* (initialized = FALSE), and until an `initialized` notification carrying its
\* id has been processed no other method carrying that id is dispatched to the
\* handler (it is answered ServerNotInitialized instead).
C1_HandshakeGate ==
    /\ \A s \in DOMAIN sessions \ notified : ~sessions[s].initialized
    /\ \A t \in BagToSet(inflight) :
          t.pc = "in_handler" =>
              \A s \in t.session : s \notin DOMAIN sessions \ notified

Answered200(s) == Cardinality({i \in 1..Len(terminated_ok) : terminated_ok[i] = s})

\* a DELETE /mcp for s between its two critical sections
DeleteTask(s, removed) ==
    [NewTask("delete_channel", "DELETE /mcp", Some(s), NoBody) EXCEPT !.removed = removed]

\* the DELETE /mcp requests for s that removed the session and have yet to answer
Removing(s) == CopiesIn(DeleteTask(s, TRUE), inflight)

\* C3: termination is idempotent: of all the DELETE /mcp requests for one id,
\* sequential or concurrent, at most one is answered 200; every answer is 200
\* or 404; an id that never was a session gets 404; and a 404 for an id that
\* was a session means another DELETE /mcp removed it (the one that is answered
\* 200).
C3_TerminationIdempotent ==
    /\ \A s \in known : Answered200(s) + Removing(s) <= 1
    /\ ev.op = "delete_channel" =>
          LET s == Unwrap(ev.session)
          IN  /\ ev.status \in {200, 404}
              /\ s \notin DOMAIN event_counter => ev.status = 404
              /\ ev.status = 200 => s \in DOMAIN event_counter
              /\ (ev.status = 404 /\ s \in DOMAIN event_counter) =>
                     Answered200(s) + Removing(s) = 1

\* a second DELETE /mcp for a session is answered 404 after the first got 200
C3_Witness ==
    /\ ev.op = "delete_channel"
    /\ ev.status = 404
    /\ Answered200(Unwrap(ev.session)) = 1

\* C4: a DELETE /mcp carrying s that passes the checks removes s from the
\* session registry, and when it completes s is in neither registry and the
\* answer is 200 if s was in the session registry when it was removed, 404 if
\* it was not.
C4_TerminationRemovesBoth ==
    [][/\ (ev'.op = "mcp_delete" /\ ev'.status = 0) =>
             LET s == Unwrap(ev'.session)
             IN  /\ s \notin DOMAIN sessions'
                 /\ inflight' = inflight (+) One(DeleteTask(s, s \in DOMAIN sessions))
       /\ ev'.op = "delete_channel" =>
             LET s == Unwrap(ev'.session)
                 was_registered ==
                     CopiesIn(DeleteTask(s, TRUE), inflight')
                         < CopiesIn(DeleteTask(s, TRUE), inflight)
             IN  /\ s \notin DOMAIN sessions'
                 /\ s \notin sse_channels'
                 /\ ev'.status = IF was_registered THEN 200 ELSE 404
      ]_vars

\* a DELETE /mcp for a registered session has completed with 200, and a stream
\* that was subscribed to the session's channel has lost it
C4_Witness ==
    /\ ev.op = "delete_channel"
    /\ ev.status = 200
    /\ \E st \in BagToSet(streams) : Some(st.sid) = ev.session /\ ~st.attached

(***************************************************************************)
(* Event ids                                                               *)
(***************************************************************************)
\* no counter of a session gets past this in a run
MaxEventNo == MaxRequests * MaxStreams

\* the numeric suffix of the i-th event id of a stream
Suffix(st, i) ==
    CHOOSE n \in 0..MaxEventNo : st.events[i].id = Some(st.sid \o <<":", ToString(n)>>)

\* the GET /mcp streams opened while their session was registered
SessionStreams == {st \in BagToSet(streams) : st.kind = "mcp" /\ st.has_state}

\* C5: the event ids minted for a session, priming and live, on all the GET /mcp
\* streams opened while it is registered, are pairwise distinct, each is
\* <session id>:<n>, and on each stream n strictly increases.
C5_EventIds ==
    \A st \in SessionStreams :
        /\ CopiesIn(st, streams) = 1
        /\ \A i \in 1..Len(st.events) :
              \E n \in 0..MaxEventNo :
                  st.events[i].id = Some(st.sid \o <<":", ToString(n)>>)
        /\ \A i, j \in 1..Len(st.events) : i < j => Suffix(st, i) < Suffix(st, j)
        /\ \A other \in SessionStreams \ {st} :
              other.sid = st.sid =>
                  \A i \in 1..Len(st.events), j \in 1..Len(other.events) :
                      st.events[i].id # other.events[j].id

\* two streams of one registered session have each emitted a live event after
\* their priming event
C5_Witness ==
    \E st \in SessionStreams, other \in SessionStreams :
        /\ st # other
        /\ st.sid = other.sid
        /\ st.sid \in DOMAIN sessions
        /\ Len(st.events) >= 2
        /\ Len(other.events) >= 2

(***************************************************************************)
(* Security validation pipeline                                            *)
(***************************************************************************)
\* C6: validate_origin passes exactly when validation is disabled, or the
\* Origin header is absent, or its value contains localhost, 127.0.0.1 or
\* [::1], or the allow-list is non-empty and holds the value; in every other
\* case it fails with 403.
C6_OriginRule ==
    ret.fn = "validate_origin" =>
        LET origin == arg.headers.origin
            passes ==
                \/ security.allowed_origins = None
                \/ origin = None
                \/ \E o \in origin :
                      \/ contains(o, Localhost)
                      \/ contains(o, Loopback4)
                      \/ contains(o, Loopback6)
                \/ \E allowed \in security.allowed_origins :
                      /\ allowed # <<>>
                      /\ \E i \in 1..Len(allowed) : Some(allowed[i]) = origin
        IN  /\ ret.res.ok <=> passes
            /\ ~ret.res.ok => ret.res.status = 403

\* C7: validate_auth passes every request when auth is disabled; when it is
\* enabled with a token, a request passes iff its Authorization header is
\* "Bearer " followed by exactly the token, a missing header or another scheme
\* fails with 401 invalid_request, and a Bearer header with a different token
\* fails with 401 invalid_token.
C7_AuthRule ==
    ret.fn = "validate_auth" =>
        LET header == arg.headers.authorization
            is_bearer == \E h \in header : starts_with(h, Bearer)
        IN  /\ ~auth.enabled => ret.res.ok
            /\ (auth.enabled /\ auth.bearer_token # None) =>
                  LET exact == Some(Bearer \o Unwrap(auth.bearer_token))
                  IN  /\ ret.res.ok <=> header = exact
                      /\ ~is_bearer =>
                            /\ ~ret.res.ok
                            /\ ret.res.status = 401
                            /\ ret.res.error = "invalid_request"
                      /\ (is_bearer /\ header # exact) =>
                            /\ ~ret.res.ok
                            /\ ret.res.status = 401
                            /\ ret.res.error = "invalid_token"

\* auth is enabled and no expected token is configured
NoToken == auth.enabled /\ auth.bearer_token = None

\* no session, channel, stream, handler task or id has been made
Untouched ==
    /\ sessions = EmptyMap
    /\ sse_channels = {}
    /\ streams = EmptyBag
    /\ inflight = EmptyBag
    /\ uuid_count = [session |-> 0, stream |-> 0, event |-> 0]

Received ==
    /\ ev.op \in {"mcp_post", "mcp_get", "mcp_delete", "legacy_sse", "legacy_messages"}
    /\ ev.error # "json_rejection"

\* C9: on each of the five endpoints the origin, auth and protocol-version
\* checks all run, in that order, before anything else: a request that fails
\* the origin check is answered 403; one that passes it and fails the auth
\* check is answered by the auth check; one that passes both and carries a
\* version the version check refuses is answered 400 by the version check.
C9_PipelineOrder ==
    Received =>
        /\ ~ev.origin_ok => ev.status = 403
        /\ (ev.origin_ok /\ ~ev.auth_ok) => ev.status \in {401, 500}
        /\ (ev.origin_ok /\ ev.auth_ok /\ ~ev.version_ok) =>
              ev.status = 400 /\ ev.message = "Unsupported protocol version"

\* C10: validate_protocol_version passes when the header is absent; when it is
\* present it passes iff the value is the session's negotiated version (session
\* known), the current version or a recognized version, and otherwise fails
\* with 400.
C10_VersionRule ==
    ret.fn = "validate_protocol_version" =>
        LET version == arg.headers.version
            accepted ==
                \E v \in version :
                    \/ \E st \in arg.session : v = st.protocol_version
                    \/ v = CURRENT_PROTOCOL_VERSION
                    \/ v \in known_versions
        IN  /\ version = None => ret.res.ok
            /\ version # None => (ret.res.ok <=> accepted)
            /\ ~ret.res.ok => ret.res.status = 400

(***************************************************************************)
(* JSON-RPC dispatch                                                       *)
(***************************************************************************)
\* C11: a POST /mcp whose method is not initialize and whose session-id header
\* names an id that is not in the session registry is answered 404; the handler
\* is not invoked (no handler task is made) and neither registry changes.
C11_UnknownSession ==
    [][(/\ ev'.op = "mcp_post"
        /\ ev'.error # "json_rejection"
        /\ ev'.origin_ok
        /\ ev'.auth_ok
        /\ ev'.method # Some("initialize")
        /\ \E s \in ev'.session : s \notin DOMAIN sessions)
       => /\ ev'.status = 404
          /\ sessions' = sessions
          /\ sse_channels' = sse_channels
          /\ inflight' = inflight
      ]_vars

\* a request carrying the id of a terminated session has been answered 404
C11_Witness ==
    /\ ev.op = "mcp_post"
    /\ ev.status = 404
    /\ ev.method = Some("tools/list")
    /\ \E s \in ev.session : Answered200(s) = 1

\* C12: an initialize without an id is rejected with 400, and the session
\* registry and the channel registry are after the call what they were before.
C12_InitializeNeedsId ==
    [][(/\ ev'.op \in {"mcp_post", "legacy_messages"}
        /\ ev'.method = Some("initialize")
        /\ ev'.id = None)
       => /\ ev'.status = 400
          /\ sessions' = sessions
          /\ sse_channels' = sse_channels
      ]_vars

\* an initialize without an id has been rejected while a session is registered
C12_Witness ==
    /\ ev.op = "mcp_post"
    /\ ev.method = Some("initialize")
    /\ ev.id = None
    /\ ev.status = 400
    /\ ev.error = "initialize requires id"
    /\ DOMAIN sessions # {}

\* C13: the version negotiated at initialize is a recognized version or the
\* configured default: every registered session stores such a version, and an
\* answered initialize carries one such version both in its result and in its
\* response header.
C13_NegotiatedVersion ==
    LET negotiable == known_versions \cup {protocol_version_default}
    IN  /\ \A s \in DOMAIN sessions : sessions[s].protocol_version \in negotiable
        /\ (/\ ev.ep = "POST /mcp"
            /\ ev.method = Some("initialize")
            /\ ev.status = 200)
           => \E v \in negotiable :
                 /\ ev.ver_hdr = Some(v)
                 /\ \E r \in ev.body : r.result = Some(InitializeResult(v))

\* C14: when the handler returns for a request (a message with an id) posted
\* to /mcp, it has been called once for that request, and the answer is 200
\* with an envelope whose id is the request's id: the handler's result if the
\* handler succeeded, an InternalError if it failed.
C14_RequestDispatch ==
    (/\ ev.op = "handler_returns"
     /\ ev.ep = "POST /mcp"
     /\ ev.id # None)
    => /\ ev.calls = 1
       /\ ev.status = 200
       /\ \E r \in ev.body :
             /\ ev.id = Some(r.id)
             /\ ev.outcome = "ok" => (r.result = Some(HandlerResult) /\ r.error = None)
             /\ ev.outcome = "failed" => (r.result = None /\ r.error = Some("InternalError"))
       /\ ev.outcome \in {"ok", "failed"}
       /\ \A t \in BagToSet(inflight) : t.calls <= 1

\* a failed handler call has been answered on POST /mcp while another request
\* is still in the handler
C14_Witness ==
    /\ ev.op = "handler_returns"
    /\ ev.ep = "POST /mcp"
    /\ ev.id = Some("2")
    /\ ev.outcome = "failed"
    /\ ev.status = 200
    /\ \E t \in BagToSet(inflight) : t.pc = "in_handler" /\ t.calls = 1

\* C15: when the handler returns for a notification (a message without an id),
\* it has been called once for it, the answer is 202 with no body whether the
\* call succeeded or failed, nothing is to be published, and the session
\* registry and the channel registry are unchanged.
C15_NotificationDispatch ==
    [][(/\ ev'.op = "handler_returns"
        /\ ev'.id = None)
       => /\ ev'.calls = 1
          /\ ev'.outcome \in {"ok", "failed"}
          /\ ev'.status = 202
          /\ ev'.body = None
          /\ BagCardinality(inflight') = BagCardinality(inflight) - 1
          /\ \A t \in BagToSet(inflight') : t.pc = "publish" => BagIn(t, inflight)
          /\ sessions' = sessions
          /\ sse_channels' = sse_channels
          /\ streams' = streams
      ]_vars

\* a notification whose handler call failed has been answered 202 in a
\* registered session
C15_Witness ==
    /\ ev.op = "handler_returns"
    /\ ev.method = Some("tools/list")
    /\ ev.id = None
    /\ ev.outcome = "failed"
    /\ ev.status = 202
    /\ \E s \in ev.session : s \in DOMAIN sessions

\* the step in which handle_jsonrpc runs on the message of the request e
Dispatched(e) ==
    \/ e.op = "mcp_post_jsonrpc"
    \/ /\ e.op = "mcp_post"
       /\ e.session = None
       /\ e.error # "json_rejection" /\ e.origin_ok /\ e.auth_ok
    \/ /\ e.op = "legacy_messages"
       /\ e.error # "json_rejection" /\ e.origin_ok /\ e.auth_ok

\* C16: an `initialized` notification that names a registered session, or no
\* session, is answered 202 with no body; the session registry is afterwards
\* what it was except that the named session's initialized flag is true (its
\* version, every other session and the set of sessions are the same), and the
\* event counters, the channel registry and the streams are unchanged.
C16_InitializedFrame ==
    [][(/\ Dispatched(ev')
        /\ ev'.method = Some("initialized")
        /\ ev'.id = None
        /\ \A s \in ev'.session : s \in DOMAIN sessions)
       => /\ ev'.status = 202
          /\ ev'.body = None
          /\ ev'.sess_hdr = None
          /\ sessions' = [s \in DOMAIN sessions |->
                            IF s \in ev'.session
                            THEN [initialized |-> TRUE,
                                  protocol_version |-> sessions[s].protocol_version]
                            ELSE sessions[s]]
          /\ event_counter' = event_counter
          /\ sse_channels' = sse_channels
          /\ streams' = streams
          /\ BagCardinality(inflight') <= BagCardinality(inflight)
      ]_vars

\* an `initialized` naming one of two registered sessions has been answered
C16_Witness ==
    /\ ev.op = "mcp_post_jsonrpc"
    /\ ev.method = Some("initialized")
    /\ ev.status = 202
    /\ \E s \in ev.session : s \in DOMAIN sessions /\ sessions[s].initialized
    /\ Cardinality(DOMAIN sessions) = 2

\* C17: a POST /messages that passes the origin and authentication checks is
\* answered 202 with no result in the response, whatever its message is and
\* whatever the handler returns.
C17_AlwaysAccepted ==
    (/\ ev.ep = "POST /messages"
     /\ ev.op \in {"legacy_messages", "handler_returns", "publish"}
     /\ ev.error # "json_rejection" /\ ev.origin_ok /\ ev.auth_ok
     /\ ev.status # 0)
    => /\ ev.status = 202
       /\ ev.body = None

\* C18: when the handler returns for a request posted to /messages with a
\* session id whose channel exists, the response envelope (a success or an
\* InternalError, with the request's id) is handed to that channel: one more
\* publication of it for that session id is pending.
C18_EnvelopePublished ==
    [][(/\ ev'.op = "handler_returns"
        /\ ev'.ep = "POST /messages"
        /\ ev'.id # None
        /\ \E s \in ev'.session : s \in sse_channels)
       => \E t \in BagToSet(inflight') :
             /\ t.pc = "publish"
             /\ t.session = ev'.session
             /\ \E r \in t.maybe_resp : ev'.id = Some(r.id)
             /\ CopiesIn(t, inflight') = CopiesIn(t, inflight) + 1
      ]_vars

\* the client holds the GET /sse stream announced with the n-th minted id
Reading(n) ==
    \E s \in BagToSet(streams) :
        s.kind = "sse" /\ s.sid = UuidStr("stream", n) /\ s.open /\ s.attached

\* request 2 has been posted to /messages for that id and is in the handler
Posted(n) ==
    /\ ev.op = "legacy_messages"
    /\ ev.session = Some(UuidStr("stream", n))
    /\ ev.method = Some("tools/list")
    /\ ev.id = Some("2")
    /\ ev.status = 0
    /\ Reading(n)

\* that stream has emitted a message event with the response to request 2
Delivered(n) ==
    \E s \in BagToSet(streams) :
        /\ s.kind = "sse" /\ s.sid = UuidStr("stream", n)
        /\ \E i \in 2..Len(s.events) :
              /\ s.events[i].event = "message"
              /\ \E r \in s.events[i].data : r.id = "2"

EndpointFirst ==
    \A s \in BagToSet(streams) :
        s.kind = "sse" =>
            /\ s.events[1].event = "endpoint"
            /\ \A i \in 2..Len(s.events) : s.events[i].event = "message"

\* C19: on every GET /sse stream the endpoint event comes first and only
\* message events follow; and a request posted to /messages with the id a
\* stream announced is eventually followed, on that stream, by a message event
\* carrying the response with the request's id, unless the stream has ended.
C19_LegacyExchange ==
    /\ []EndpointFirst
    /\ \A n \in 1..MaxStreams : Posted(n) ~> (Delivered(n) \/ ~Reading(n))

\* C20: a GET /sse that passes the origin and authentication checks, whatever
\* session header it carries, is answered 200 and adds exactly one channel,
\* under an id that was a key of neither registry; its stream starts with the
\* single event `endpoint` whose path is /messages?sessionId=<id>; the session
\* registry, the event counters, the other channels and the other streams are
\* unchanged.
C20_LegacySseFresh ==
    [][(/\ ev'.op = "legacy_sse"
        /\ ev'.origin_ok
        /\ ev'.auth_ok)
       => /\ ev'.status = 200
          /\ \E id \in sse_channels' \ sse_channels :
                /\ sse_channels' = sse_channels \cup {id}
                /\ id \notin DOMAIN sessions
                /\ \E s \in BagToSet(streams') :
                      /\ s.kind = "sse"
                      /\ s.sid = id
                      /\ s.open /\ s.attached /\ s.queue = <<>>
                      /\ s.events = <<[event |-> "endpoint", id |-> None, data |-> None,
                                       path |-> Some(<<"/messages?sessionId=">> \o id)]>>
                      /\ streams' = streams (+) SetToBag({s})
          /\ sessions' = sessions
          /\ event_counter' = event_counter
          /\ inflight' = inflight
      ]_vars

\* a GET /sse carrying the id of a registered session has been answered while
\* another channel existed
C20_Witness ==
    /\ ev.op = "legacy_sse"
    /\ ev.status = 200
    /\ \E s \in ev.session : s \in DOMAIN sessions
    /\ Cardinality(sse_channels) >= 3
    /\ BagCardinality(streams) = 2

(***************************************************************************)
(* Streams, buffers and the stdio runtime                                  *)
(***************************************************************************)
\* the envelopes published so far, in publication order
Published ==
    [i \in 1..(nreq - SetupRequests) |->
        Success(ToString(SetupRequests + i), HandlerResult)]

\* the number a request id stands for
IdNumber ==
    [x \in {ToString(i) : i \in 1..(SetupRequests + MaxPublished + 1)} |->
        CHOOSE i \in 1..(SetupRequests + MaxPublished + 1) : ToString(i) = x]

\* the envelopes a stream has emitted as message events, then those it still
\* has pending
Seen(s) ==
    [i \in 1..(Len(s.events) - 1) |-> Unwrap(s.events[i + 1].data)] \o s.queue

\* C21: publishing reaches every subscriber whatever it has pending; a
\* subscriber never has more than 256 messages pending, and what it has
\* pending are the most recently published messages (so only its own oldest
\* pending ones are lost); what it emits and has pending is a subsequence of
\* the published messages in publication order, without duplicates; and the
\* subscriber that reads every message before the next is published gets them
\* all, however far the other one lags.
C21_LossyFanOut ==
    \A s \in BagToSet(streams) :
        LET n == Len(Published)
            seen == Seen(s)
        IN  /\ Len(s.queue) <= CHANNEL_CAPACITY
            /\ s.queue = SubSeq(Published, n - Len(s.queue) + 1, n)
            /\ ev.op = "legacy_messages" => Len(s.queue) >= 1
            /\ \A i \in 1..Len(seen) :
                  /\ seen[i].id \in DOMAIN IdNumber
                  /\ IdNumber[seen[i].id] - SetupRequests \in 1..n
                  /\ seen[i] = Published[IdNumber[seen[i].id] - SetupRequests]
            /\ \A i \in 1..(Len(seen) - 1) :
                  IdNumber[seen[i].id] < IdNumber[seen[i + 1].id]
            /\ s.kind = "sse" => seen = Published

\* the lagging subscriber has lost its oldest pending messages and has then
\* read on, while the other subscriber has all the messages
C21_Witness ==
    /\ Len(Published) = MaxPublished
    /\ \E s \in BagToSet(streams) :
          /\ s.kind = "mcp"
          /\ Len(s.events) > 2
          /\ Unwrap(s.events[2].data) = Published[MaxLost + 1]
          /\ Len(s.queue) < CHANNEL_CAPACITY
    /\ \E s \in BagToSet(streams) :
          s.kind = "sse" /\ Len(s.events) = 1 + MaxPublished

\* C22: every GET /mcp stream that has been opened is open (the model has no
\* client disconnect and no shutdown), whatever has happened to its session
\* and its channel.
C22_McpStreamStaysOpen ==
    \A s \in BagToSet(streams) : s.kind = "mcp" => s.open

\* a GET /mcp stream of a session that DELETE /mcp has terminated: the session
\* and the channel are gone, the stream has drained, and it is open
C22_Witness ==
    \E s \in BagToSet(streams) :
        /\ s.kind = "mcp"
        /\ s.has_state
        /\ s.open
        /\ ~s.attached
        /\ s.queue = <<>>
        /\ s.sid \notin DOMAIN sessions
        /\ s.sid \notin sse_channels
        /\ \E i \in 1..Len(terminated_ok) : terminated_ok[i] = s.sid
        /\ ev.op = "delete_channel"

\* C30: every GET /sse stream that has been opened is open (the model has no
\* client disconnect and no shutdown): no operation of the server ends it, a
\* DELETE /mcp carrying its id included.
C30_LegacyStreamStaysOpen ==
    \A s \in BagToSet(streams) : s.kind = "sse" => s.open

C24_BoundedRing ==
    LET kept == IF stored < MAX_EVENT_BUFFER_SIZE THEN stored ELSE MAX_EVENT_BUFFER_SIZE
    IN  /\ Len(event_buffer) <= MAX_EVENT_BUFFER_SIZE
        /\ event_buffer = [i \in 1..kept |-> NthEvent(stored - kept + i)]

\* more than 100 events have been stored and the oldest ones are gone
C24_Witness ==
    /\ ret.fn = "store_event"
    /\ stored = MaxStored
    /\ Len(event_buffer) = MAX_EVENT_BUFFER_SIZE
    /\ event_buffer[1] = NthEvent(MaxEvicted + 1)

\* C25: get_events_after(id) returns the buffered events that follow the
\* buffered event with that id, in the buffer's order, and the empty list when
\* no buffered event has that id.
C25_EventsAfter ==
    ret.fn = "get_events_after" =>
        LET at == {i \in 1..Len(event_buffer) : event_buffer[i].id = arg.last_event_id}
        IN  /\ Cardinality(at) <= 1
            /\ at = {} => ret.res = <<>>
            /\ \A i \in at : ret.res = SubSeq(event_buffer, i + 1, Len(event_buffer))

\* asked for the oldest event of a buffer that has evicted events: the 99
\* events after it are returned
C25_Witness ==
    /\ ret.fn = "get_events_after"
    /\ stored > MAX_EVENT_BUFFER_SIZE
    /\ arg.last_event_id = event_buffer[1].id
    /\ Len(ret.res) = MAX_EVENT_BUFFER_SIZE - 1
    /\ ret.res[1] = event_buffer[2]

\* C26: after the same messages, the first an initialize, on one HTTP session
\* and on one stdio connection, the last message has been answered
\* ServerNotInitialized by the HTTP transport if and only if it has been by the
\* stdio runtime.
C26_SameGating ==
    compat.rejected.http = compat.rejected.stdio

(***************************************************************************)
(* The configuration files                                                 *)
(***************************************************************************)
\* the array a tools or prompts payload carries, bare or under its key
SubmittedArray(config, key) ==
    IF config.type = "array" THEN config
    ELSE LET i == CHOOSE i \in 1..Len(config.items) : config.items[i].k = key
         IN  config.items[i].v

\* what a load after the successful save of config is to return
SavedValue(fn, config) ==
    IF fn = "save_tools" THEN SubmittedArray(config, "tools")
    ELSE IF fn = "save_prompts" THEN SubmittedArray(config, "prompts")
    ELSE config

LoadOf(fn) ==
    IF fn = "save_instances" THEN {"load_instances", "get_instances"}
    ELSE IF fn = "save_tools" THEN {"load_tools"}
    ELSE IF fn = "save_prompts" THEN {"load_prompts"}
    ELSE IF fn = "save_server" THEN {"load_server"}
    ELSE {}

\* C27: a load that follows a save reporting success returns the saved value:
\* the object for instances and server, the submitted array (bare or under its
\* key) for tools and prompts; get_instances returns it from the cache too
C27_SaveLoadRoundTrip ==
    [][(/\ ret.fn \in {"save_instances", "save_tools", "save_prompts", "save_server"}
        /\ ret.res.result.success
        /\ ret'.fn \in LoadOf(ret.fn))
       => (/\ ret'.res.ok
           /\ ret'.res.value = SavedValue(ret.fn, arg.config)
           /\ ret.fn \in {"save_tools", "save_prompts"} => ret'.res.value.type = "array")]_vars

\* a wrapped tools list was saved and the following load returned its array
C27_Witness ==
    /\ ret.fn = "load_tools"
    /\ ret.res.ok
    /\ ret.res.value = JArray(<<Tool("tool2"), Tool("tool3")>>)
    /\ files["tools"] # None

\* C28: after a save_instances that reports success = false, instances.json
\* and the instances cache are as they were before the call, and the answer
\* of POST /api/config/instances is 400 with an `error` field
C28_FailedSaveChangesNothing ==
    (ret.fn = "save_instances" /\ ~ret.res.result.success)
    => (/\ files["instances"] = arg.file
        /\ instances_cache = arg.instances_cache
        /\ ret.res.response.status = 400
        /\ "error" \in ret.res.response.body)

(***************************************************************************)
(* Event ids                                                               *)
(***************************************************************************)
\* the GET /mcp streams opened with a session id (no header: "default")
OpenedWith(sid) == {s \in BagToSet(streams) : s.kind = "mcp" /\ s.sid = sid}

\* C29: the priming event of a GET /mcp stream carries an id that no stream
\* opened earlier with the same session id has emitted: no two streams of one
\* session id start with the same event id
C29_FreshPrimingId ==
    \A s \in BagToSet(streams) :
        s.kind = "mcp" =>
            /\ CopiesIn(s, streams) = 1
            /\ \A t \in OpenedWith(s.sid) \ {s} :
                   \A i \in 1..Len(t.events) : t.events[i].id # s.events[1].id

(***************************************************************************)
(* The registry mutexes, lock by lock                                      *)
(***************************************************************************)
\* handlers running at a time in the lock-level runs
MaxHandlers == 3

Lock(mutex) == [op |-> "lock", mutex |-> mutex]

Unlock(mutex) == [op |-> "unlock", mutex |-> mutex]

\* a guard that is a temporary of one statement or the local of one block
Critical(mutex) == <<Lock(mutex), Unlock(mutex)>>

LockMethods == {"initialize", "initialized", "tools/list"}

\* handle_jsonrpc: initialize inserts the session, then the channel; the
\* initialized notification and the gate look the session up, if one is named
handle_jsonrpc_locks(method, has_session) ==
    IF method = "initialize" THEN Critical("sessions") \o Critical("sse_channels")
    ELSE IF has_session THEN Critical("sessions")
    ELSE <<>>

\* mcp_post: the session check in its own block, then handle_jsonrpc
mcp_post_locks(method, has_session) ==
    (IF method # "initialize" /\ has_session THEN Critical("sessions") ELSE <<>>)
    \o handle_jsonrpc_locks(method, has_session)

\* mcp_get: chans, then sessions inside the same block; locals drop in
\* reverse order of declaration
mcp_get_locks ==
    <<Lock("sse_channels"), Lock("sessions"), Unlock("sessions"), Unlock("sse_channels")>>

\* both guards as locals of one block
mcp_delete_locks_mut ==
    <<Lock("sessions"), Lock("sse_channels"), Unlock("sse_channels"), Unlock("sessions")>>

\* mcp_delete: two blocks, one after the other
mcp_delete_locks == Critical("sessions") \o Critical("sse_channels")

legacy_sse_locks == Critical("sse_channels")

\* legacy_messages: handle_jsonrpc, then the channel lookup when there is a
\* session id and a response to publish
legacy_messages_locks(method, has_session) ==
    handle_jsonrpc_locks(method, has_session)
    \o (IF has_session /\ method # "initialized" THEN Critical("sse_channels") ELSE <<>>)

Handler(kind, todo) == [kind |-> kind, todo |-> todo, held |-> {}]

Handlers ==
    {Handler("mcp_post", mcp_post_locks(m, b)) : m \in LockMethods, b \in BOOLEAN}
    \cup {Handler("legacy_messages", legacy_messages_locks(m, b)) :
             m \in LockMethods, b \in BOOLEAN}
    \cup {Handler("mcp_get", mcp_get_locks), Handler("mcp_delete", mcp_delete_locks),
          Handler("legacy_sse", legacy_sse_locks)}

InitLocks ==
    /\ InitServer
    /\ security = [allowed_origins |-> None]
    /\ auth = [enabled |-> FALSE, bearer_token |-> None]
    /\ env = [requests |-> 0, inflight |-> MaxHandlers, wild |-> FALSE, other |-> FALSE]
    /\ arg = NoArg
    /\ ret = NoRet

OnlyInflight ==
    UNCHANGED <<security, auth, env, arg, ret, sessions, event_counter, sse_channels,
                streams, uuid_count, nreq, known, notified, terminated_ok, ev,
                event_buffer, stored, compat, files, instances_cache>>

\* a request arrives and its handler starts
arrive(h) ==
    /\ BagCardinality(inflight) < env.inflight
    /\ inflight' = inflight (+) One(h)
    /\ OnlyInflight

\* mutex.lock().await returns
lock_acquired(t) ==
    /\ t \in BagToSet(inflight)
    /\ t.todo # <<>>
    /\ Head(t.todo).op = "lock"
    /\ Unlocked(Head(t.todo).mutex)
    /\ inflight' = (inflight (-) One(t))
                   (+) One([t EXCEPT !.todo = Tail(@),
                                     !.held = @ \cup {Head(t.todo).mutex}])
    /\ OnlyInflight

\* the guard goes out of scope
guard_dropped(t) ==
    /\ t \in BagToSet(inflight)
    /\ t.todo # <<>>
    /\ Head(t.todo).op = "unlock"
    /\ inflight' = (inflight (-) One(t))
                   (+) One([t EXCEPT !.todo = Tail(@),
                                     !.held = @ \ {Head(t.todo).mutex}])
    /\ OnlyInflight

\* the handler returns its response
handler_done(t) ==
    /\ t \in BagToSet(inflight)
    /\ t.todo = <<>>
    /\ inflight' = inflight (-) One(t)
    /\ OnlyInflight

LockStep ==
    \E t \in BagToSet(inflight) : lock_acquired(t) \/ guard_dropped(t) \/ handler_done(t)

NextLocks ==
    \/ \E h \in Handlers : arrive(h)
    \/ \E t \in BagToSet(inflight) : lock_acquired(t)
    \/ \E t \in BagToSet(inflight) : guard_dropped(t)
    \/ \E t \in BagToSet(inflight) : handler_done(t)

SpecLocks == InitLocks /\ [][NextLocks]_vars

\* the handlers waiting in lock().await, and the mutex each waits for
Waiting == {t \in BagToSet(inflight) : t.todo # <<>> /\ Head(t.todo).op = "lock"}

\* a set of handlers each waiting for a mutex that one of the set holds
Deadlocked(W) ==
    /\ W # {}
    /\ \A t \in W : \E u \in W : Head(t.todo).mutex \in u.held

\* C31: no interleaving of the handlers deadlocks on the two registry mutexes:
\* no set of handlers wait for each other and some handler can always move on;
\* only GET /mcp holds both, taking the channel lock first, and no handler
\* waits for the channel lock while holding the session lock
C31_NoDeadlock ==
    /\ \A W \in SUBSET Waiting : ~Deadlocked(W)
    /\ inflight # EmptyBag => ENABLED LockStep
    /\ \A t \in BagToSet(inflight) :
           /\ t.held = {"sessions", "sse_channels"} => t.kind = "mcp_get"
           /\ (t \in Waiting /\ "sessions" \in t.held)
                  => Head(t.todo).mutex # "sse_channels"
           /\ CopiesIn(t, inflight) > 1 => t.held = {}

\* GET /mcp holds both mutexes while a DELETE /mcp waits for the session lock
\* and an initialize waits for the channel lock
C31_Witness ==
    /\ \E t \in BagToSet(inflight) :
           t.kind = "mcp_get" /\ t.held = {"sessions", "sse_channels"}
    /\ \E t \in Waiting : t.kind = "mcp_delete" /\ Head(t.todo).mutex = "sessions"
    /\ \E t \in Waiting : t.kind = "mcp_post" /\ Head(t.todo).mutex = "sse_channels"

(***************************************************************************)
(* Termination against requests in flight                                  *)
(***************************************************************************)
\* the step just taken called handle_method for a validated POST /mcp request
JustDispatched ==
    /\ ev.op = "mcp_post_jsonrpc"
    /\ ev.status = 0
    /\ \E t \in BagToSet(inflight) :
           t.pc = "in_handler" /\ t.ep = "POST /mcp" /\ t.session = ev.session

\* C32: a POST /mcp request that carries a session id reaches the external
\* handler only if that session is in the registry at the moment of dispatch
C32_DispatchNeedsSession ==
    JustDispatched => \A s \in ev.session : s \in DOMAIN sessions

\* C33: the step in which a DELETE /mcp is answered 400 (no session header) or
\* 404 (no such session) leaves the session registry and the channel registry
\* as they were; a channel under the id of a 404 stays in place
C33_FailedDeleteFrame ==
    [][(/\ ev'.ep = "DELETE /mcp"
        /\ ev'.op \in {"mcp_delete", "delete_channel"}
        /\ ev'.status \in {400, 404})
       => (/\ sessions' = sessions
           /\ sse_channels' = sse_channels)]_vars

(***************************************************************************)
(* Rejected requests                                                       *)
(***************************************************************************)
\* the steps in which a request arrives at one of the five endpoints
Arrivals == {"mcp_post", "mcp_get", "mcp_delete", "legacy_sse", "legacy_messages"}

\* C34: a request that the origin check or the auth check rejects, on any of
\* the five endpoints, is answered with the error of that check (403, 401, or
\* 500 when no token is configured) and has no effect: the session
\* registry, the channel registry, the event counters and the streams (so what
\* is published) are unchanged and no handler task is made
C34_RejectedNoEffect ==
    [][(/\ ev'.op \in Arrivals
        /\ ev'.error # "json_rejection"
        /\ ~ev'.origin_ok \/ ~ev'.auth_ok)
       => (/\ ev'.status \in (IF ~ev'.origin_ok THEN {403} ELSE {401, 500})
           /\ sessions' = sessions
           /\ sse_channels' = sse_channels
           /\ event_counter' = event_counter
           /\ uuid_count' = uuid_count
           /\ streams' = streams
           /\ inflight' = inflight)]_vars

\* a DELETE /mcp naming a live session has been rejected by the auth check
C34_Witness ==
    /\ ev.op = "mcp_delete"
    /\ ev.status = 401
    /\ ev.origin_ok /\ ~ev.auth_ok
    /\ \E s \in ev.session : s \in DOMAIN sessions /\ s \in sse_channels

(***************************************************************************)
(* Messages that name no registered session                                *)
(***************************************************************************)
\* handle_jsonrpc has just run on a message with a method other than
\* initialize and initialized that names no session (POST /mcp, POST /messages)
\* or, on POST /messages, an id that is not in the session registry
Ungated(e) ==
    /\ e.error # "json_rejection" /\ e.origin_ok /\ e.auth_ok
    /\ e.method \notin {None, Some("initialize"), Some("initialized")}
    /\ \/ e.op = "mcp_post" /\ e.session = None
       \/ e.op = "legacy_messages" /\ \A s \in e.session : s \notin DOMAIN sessions

\* the message of the step e is now in the external handler
InHandler(e) ==
    /\ e.status = 0
    /\ \E t \in BagToSet(inflight) :
           /\ t.pc = "in_handler" /\ t.calls = 1
           /\ t.session = e.session /\ t.body.method = e.method /\ t.body.id = e.id

Undisclosed == DOMAIN sessions \ known

\* C36: an initialize on POST /messages?sessionId=L registers its session
\* under a fresh id that is not L and is told to no client (no header on the
\* answer; the envelope carries the initialize result only); no legacy stream
\* id is a key of the session registry; and a session whose id was told to
\* nobody is never changed or removed by a later request
C36_LegacySessionHidden ==
    [][/\ (ev'.op = "legacy_messages" /\ DOMAIN sessions' # DOMAIN sessions)
              => \A new \in DOMAIN sessions' \ DOMAIN sessions :
                     /\ ev'.method = Some("initialize")
                     /\ new \notin ev'.session
                     /\ new \notin known'
                     /\ new \notin {s.sid : s \in BagToSet(streams')}
                     /\ ev'.sess_hdr = None
                     /\ ev'.session # None =>
                            \E t \in BagToSet(inflight') :
                                /\ t.pc = "publish" /\ t.session = ev'.session
                                /\ t.maybe_resp =
                                       Some(Success(Unwrap(ev'.id),
                                            InitializeResult(sessions'[new].protocol_version)))
       /\ \A s \in BagToSet(streams') : s.kind = "sse" => s.sid \notin DOMAIN sessions'
       /\ \A sid \in Undisclosed :
              /\ sid \in DOMAIN sessions'
              /\ sessions'[sid] = sessions[sid]
              /\ sid \notin known'
      ]_vars

\* the envelope of an initialize posted under a legacy stream id has been
\* published, its session is registered and nobody knows the id, while a
\* DELETE /mcp has since been answered
C36_Witness ==
    /\ Undisclosed # {}
    /\ \E s \in BagToSet(streams) :
           /\ s.kind = "sse"
           /\ \E i \in 1..Len(s.events) :
                  \E r \in s.events[i].data : r.result # None
    /\ ev.ep = "DELETE /mcp" /\ ev.status \in {200, 404}

(***************************************************************************)
(* The stdio runtime: ServerCompat                                         *)
(***************************************************************************)
\* messages received over stdio in one run
MaxStdioMessages == 4

\* Message::Request, Message::Notification, Message::Response
StdioMessages ==
    {[kind |-> "request", method |-> m, id |-> Some(i)] :
        m \in {"initialize", "shutdown", "tools/list"}, i \in ValidIds}
    \cup {[kind |-> "notification", method |-> m, id |-> None] :
             m \in {"initialized", "exit", "notifications/cancelled"}}
    \cup {[kind |-> "response", method |-> "", id |-> Some("1")]}

\* Response::success(id, ..) and Response::error(id, ResponseError::from(err))
StdioSuccess(id) == [id |-> id, ok |-> TRUE, error |-> ""]

StdioError(id, code) == [id |-> id, ok |-> FALSE, error |-> code]

\* a handle_request that lets shutdown through before `initialized`
handle_request_mut(initialized, request, succeeds) ==
    IF request.method = "initialize"
    THEN IF initialized
         THEN [called |-> "none",
               response |-> StdioError(request.id, "InvalidRequest: Server already initialized")]
         ELSE [called |-> "initialize",
               response |-> IF succeeds THEN StdioSuccess(request.id)
                            ELSE StdioError(request.id, "handler")]
    ELSE IF request.method = "shutdown"
    THEN [called |-> "shutdown",
          response |-> IF succeeds THEN StdioSuccess(request.id)
                       ELSE StdioError(request.id, "handler")]
    ELSE IF ~initialized
    THEN [called |-> "none", response |-> StdioError(request.id, "ServerNotInitialized")]
    ELSE [called |-> "handle_method",
          response |-> IF succeeds THEN StdioSuccess(request.id)
                       ELSE StdioError(request.id, "handler")]

\* ServerCompat::handle_request, and start turning its Err into an error
\* response with the request's id: which handler method is called, if any,
\* and the response; `succeeds` is whether the parsing of the parameters and
\* the handler's call return Ok
handle_request(initialized, request, succeeds) ==
    IF request.method = "initialize"
    THEN IF initialized
         THEN [called |-> "none",
               response |-> StdioError(request.id, "InvalidRequest: Server already initialized")]
         ELSE [called |-> "initialize",
               response |-> IF succeeds THEN StdioSuccess(request.id)
                            ELSE StdioError(request.id, "handler")]
    ELSE IF ~initialized
    THEN [called |-> "none", response |-> StdioError(request.id, "ServerNotInitialized")]
    ELSE [called |-> IF request.method = "shutdown" THEN "shutdown" ELSE "handle_method",
          response |-> IF succeeds THEN StdioSuccess(request.id)
                       ELSE StdioError(request.id, "handler")]

\* ServerCompat::new, and what the run has seen so far: messages received,
\* whether an `initialized` notification was among them, initialize requests
\* answered with success
StdioNew ==
    [initialized |-> FALSE, running |-> TRUE, received |-> 0, told |-> FALSE, inits |-> 0]

InitStdio ==
    /\ sessions = EmptyMap
    /\ event_counter = EmptyMap
    /\ sse_channels = {}
    /\ streams = EmptyBag
    /\ inflight = EmptyBag
    /\ uuid_count = [session |-> 0, stream |-> 0, event |-> 0]
    /\ nreq = 0
    /\ known = {}
    /\ notified = {}
    /\ terminated_ok = <<>>
    /\ ev = NoEv
    /\ event_buffer = <<>>
    /\ stored = 0
    /\ compat = [NoCompat EXCEPT !.stdio = StdioNew]
    /\ files = NoFiles
    /\ instances_cache = JObject(<<>>)
    /\ security = [allowed_origins |-> None]
    /\ auth = [enabled |-> FALSE, bearer_token |-> None]
    /\ env = [requests |-> 0, inflight |-> 0, wild |-> FALSE, other |-> FALSE]
    /\ arg = NoArg
    /\ ret = NoRet

\* one turn of the loop of ServerCompat::start
start(message, succeeds) ==
    /\ compat.stdio.running
    /\ compat.stdio.received < MaxStdioMessages
    /\ message.kind # "request" => succeeds
    /\ LET st == compat.stdio
           r == IF message.kind = "request"
                THEN handle_request(st.initialized, message, succeeds)
                ELSE [called |-> "none", response |-> StdioSuccess(None)]
       IN  /\ compat' =
                  [compat EXCEPT !.stdio =
                      [initialized |-> st.initialized
                                       \/ (message.kind = "notification"
                                           /\ message.method = "initialized"),
                       running |-> ~(message.kind = "response"
                                     \/ (message.kind = "notification"
                                         /\ message.method = "exit")),
                       received |-> st.received + 1,
                       told |-> st.told \/ (message.kind = "notification"
                                            /\ message.method = "initialized"),
                       inits |-> st.inits
                                 + (IF message.kind = "request"
                                       /\ message.method = "initialize" /\ r.response.ok
                                    THEN 1 ELSE 0)]]
           /\ arg' = [message |-> message, told |-> st.told, inits |-> st.inits]
           /\ ret' = [fn |-> "start", called |-> r.called,
                      res |-> IF message.kind = "request" THEN Some(r.response) ELSE None]
    /\ UNCHANGED <<security, auth, env, sessions, event_counter, sse_channels, streams,
                   inflight, uuid_count, nreq, known, notified, terminated_ok, ev,
                   event_buffer, stored, files, instances_cache>>

NextStdio == \E message \in StdioMessages, succeeds \in BOOLEAN : start(message, succeeds)

SpecStdio == InitStdio /\ [][NextStdio]_vars

\* C37: over stdio, a request other than initialize received before any
\* `initialized` notification is answered with a ServerNotInitialized error
\* that carries the request's id, and neither handle_method nor shutdown is
\* called for it; once `initialized` has been received the flag stays true
C37_StdioGate ==
    /\ (/\ ret.fn = "start"
        /\ arg.message.kind = "request"
        /\ arg.message.method # "initialize"
        /\ ~arg.told)
       => /\ ret.res = Some(StdioError(arg.message.id, "ServerNotInitialized"))
          /\ ret.called = "none"
    /\ compat.stdio.told => compat.stdio.initialized

\* a shutdown request was refused before `initialized`, after an initialize
\* had succeeded
C37_Witness ==
    /\ ret.fn = "start"
    /\ arg.message.kind = "request" /\ arg.message.method = "shutdown"
    /\ ~arg.told /\ arg.inits = 1
    /\ ret.res = Some(StdioError(arg.message.id, "ServerNotInitialized"))

\* C38: over stdio at most one initialize request is answered with success in
\* a run: once one has succeeded, a later initialize is answered InvalidRequest
\* "Server already initialized" and the handler's initialize is not called
C38_SingleInitialize ==
    /\ compat.stdio.inits <= 1
    /\ (/\ ret.fn = "start"
        /\ arg.message.kind = "request"
        /\ arg.message.method = "initialize"
        /\ arg.inits >= 1)
       => /\ ret.res = Some(StdioError(arg.message.id,
                                       "InvalidRequest: Server already initialized"))
          /\ ret.called = "none"

(***************************************************************************)
(* What a successful save has verified                                     *)
(***************************************************************************)
\* C39: save_instances reports success, and replaces the cache with the new
\* config, only if the file was written and then read back and parsed; if the
\* write or the read-back fails it reports failure, with or without a
\* previous file to roll back to
C39_SuccessMeansVerified ==
    (ret.fn = "save_instances" /\ is_object(arg.config))
    => /\ ret.res.result.success
              <=> (ret.res.faults.write = "ok" /\ ret.res.faults.read)
       /\ ret.res.result.success
              => (/\ instances_cache = arg.config
                  /\ \E text \in files["instances"] : from_str(text) = Some(arg.config))
       /\ ~ret.res.result.success => instances_cache = arg.instances_cache

(***************************************************************************)
(* The config UI: login, logout and the middleware of the protected routes *)
(***************************************************************************)
MaxLogins == 2

MaxTicks == 2

SESSION_DURATION == 24 * 60 * 60

Admin == <<"a", "d", "m", "i", "n">>

Guest == <<"g", "u", "e", "s", "t">>

\* AuthConfig::from_env: enabled when both variables are set and not empty
\* (unwrap_or_default makes an unset variable the empty string)
AuthConfig_from_env(username, password) ==
    [username |-> username, password |-> password,
     enabled |-> username # <<>> /\ password # <<>>]

verify(a, username, password) ==
    a.enabled /\ a.username = username /\ a.password = password

\* hex::encode of 32 random bytes: the n-th token drawn; two draws never collide
generate_session_token(n) == <<"hex", ToString(n)>>

\* the Authorization header value, if it is text, with the prefix "Bearer " removed
extract_token(headers) ==
    LET s == header_str(headers.authorization)
    IN  IF IsSome(s) /\ starts_with(Unwrap(s), Bearer)
        THEN Some(SubSeq(Unwrap(s), Len(Bearer) + 1, Len(Unwrap(s))))
        ELSE None

Unauthorized == [next |-> FALSE, status |-> Some(401)]

RunNext == [next |-> TRUE, status |-> None]

auth_middleware_mut(a, sess, headers, now) ==
    IF ~a.enabled
    THEN RunNext
    ELSE LET session == Get(sess, extract_token(headers))
         IN  IF IsSome(session) /\ Unwrap(session).expires_at >= now
             THEN RunNext
             ELSE Unauthorized

\* the handler runs (next.run) when auth is disabled, or when the token names
\* a session whose expires_at is still in the future
auth_middleware(a, sess, headers, now) ==
    IF ~a.enabled
    THEN RunNext
    ELSE LET session == Get(sess, extract_token(headers))
         IN  IF IsSome(session) /\ Unwrap(session).expires_at > now
             THEN RunNext
             ELSE Unauthorized

\* the routes behind route_layer(auth_middleware)
ProtectedRoutes ==
    {<<"GET", "/api/config/instances">>, <<"POST", "/api/config/instances">>,
     <<"GET", "/api/config/tools">>, <<"POST", "/api/config/tools">>,
     <<"GET", "/api/config/prompts">>, <<"POST", "/api/config/prompts">>,
     <<"GET", "/api/config/server">>, <<"POST", "/api/config/server">>,
     <<"POST", "/api/auth/change-password">>, <<"GET", "/api/auth/mcp-auth-status">>,
     <<"POST", "/api/auth/mcp-auth-enabled">>, <<"POST", "/api/auth/generate-mcp-token">>}

\* the values of CONFIG_UI_USERNAME and CONFIG_UI_PASSWORD at start
UiUsernames == {<<>>, Admin}

UiPasswords == {<<>>, Secret}

\* what a client types at the login form
LoginUsernames == {<<>>, Admin, Guest}

LoginPasswords == {<<>>, Secret, Wrong}

\* the tokens a client may present: every token drawn so far and one that is
\* never drawn (a token not drawn yet cannot be guessed)
UiTokens == {generate_session_token(n) : n \in 0..uuid_count.session}

\* no Authorization header, a token after "Bearer ", or the newest token
\* after "bearer "
UiHeaders ==
    {Headers(None, a, None, None) :
        a \in {None} \cup {Some(Bearer \o t) : t \in UiTokens}
                     \cup {Some(Lowercase \o generate_session_token(uuid_count.session))}}

UiEv(op, route, token, r) ==
    [op |-> op, route |-> route, token |-> token, next |-> r.next, status |-> r.status]

\* start_config_server: no session; the clock of Instant::now() starts the run
InitUi ==
    /\ sessions = EmptyMap
    /\ event_counter = EmptyMap
    /\ sse_channels = {}
    /\ streams = EmptyBag
    /\ inflight = EmptyBag
    /\ uuid_count = [session |-> 0, stream |-> 0, event |-> 0]
    /\ nreq = 0
    /\ known = {}
    /\ notified = {}
    /\ terminated_ok = <<>>
    /\ ev = NoEv
    /\ event_buffer = <<>>
    /\ stored = 0
    /\ compat = NoCompat
    /\ files = NoFiles
    /\ instances_cache = JObject(<<>>)
    /\ security = [allowed_origins |-> None]
    /\ \E username \in UiUsernames, password \in UiPasswords :
           auth = AuthConfig_from_env(username, password)
    /\ env = [now |-> 0, ticks |-> 0]
    /\ arg = NoArg
    /\ ret = NoRet

UiFixed ==
    <<security, auth, event_counter, sse_channels, streams, inflight, nreq, notified,
      ret, event_buffer, stored, compat, files, instances_cache>>

\* POST /api/auth/login. `known` keeps every token a login has handed out,
\* with the credentials it was given for and the time it was drawn.
login(username, password) ==
    /\ verify(auth, username, password) => uuid_count.session < MaxLogins
    /\ arg' = [headers |-> Headers(None, None, None, None), session |-> None,
               username |-> username, password |-> password]
    /\ IF ~auth.enabled
       THEN /\ ev' = UiEv("login", <<"POST", "/api/auth/login">>, None,
                          [next |-> TRUE, status |-> Some(400)])
            /\ UNCHANGED <<sessions, uuid_count, known>>
       ELSE IF ~verify(auth, username, password)
       THEN /\ ev' = UiEv("login", <<"POST", "/api/auth/login">>, None,
                          [next |-> TRUE, status |-> Some(401)])
            /\ UNCHANGED <<sessions, uuid_count, known>>
       ELSE LET token == generate_session_token(uuid_count.session + 1)
                session == [username |-> username,
                            expires_at |-> env.now + SESSION_DURATION]
            IN  /\ uuid_count' = [uuid_count EXCEPT !.session = @ + 1]
                /\ sessions' = Insert(sessions, token, session)
                /\ known' = known \cup {[token |-> token, username |-> username,
                                         password |-> password, at |-> env.now]}
                /\ ev' = UiEv("login", <<"POST", "/api/auth/login">>, Some(token),
                              [next |-> TRUE, status |-> Some(200)])
    /\ UNCHANGED <<env, terminated_ok>>
    /\ UNCHANGED UiFixed

\* POST /api/auth/logout. `terminated_ok` keeps the tokens whose session a
\* logout removed, in order.
logout(headers) ==
    /\ LET token == extract_token(headers)
       IN  /\ sessions' = IF IsSome(token) /\ Unwrap(token) \in DOMAIN sessions
                          THEN Remove(sessions, Unwrap(token))
                          ELSE sessions
           /\ terminated_ok' =
                  IF IsSome(token) /\ Unwrap(token) \in DOMAIN sessions
                  THEN Append(terminated_ok, Unwrap(token))
                  ELSE terminated_ok
           /\ ev' = UiEv("logout", <<"POST", "/api/auth/logout">>, token,
                         [next |-> TRUE, status |-> Some(200)])
    /\ arg' = [headers |-> headers, session |-> None]
    /\ UNCHANGED <<env, uuid_count, known>>
    /\ UNCHANGED UiFixed

\* a request for a protected route: auth_middleware, then the route's handler
\* if the middleware lets it through
protected(route, headers) ==
    /\ ev' = UiEv("protected", route, extract_token(headers),
                  auth_middleware(auth, sessions, headers, env.now))
    /\ arg' = [headers |-> headers, session |-> None]
    /\ UNCHANGED <<sessions, env, uuid_count, known, terminated_ok>>
    /\ UNCHANGED UiFixed

\* time passes: Instant::now() is later at the next request
tick ==
    /\ env.ticks < MaxTicks
    /\ env' = [now |-> env.now + SESSION_DURATION \div 2, ticks |-> env.ticks + 1]
    /\ ev' = UiEv("tick", <<"", "">>, None, [next |-> FALSE, status |-> None])
    /\ arg' = NoArg
    /\ UNCHANGED <<sessions, uuid_count, known, terminated_ok>>
    /\ UNCHANGED UiFixed

NextUi ==
    \/ \E username \in LoginUsernames, password \in LoginPasswords :
           login(username, password)
    \/ \E headers \in UiHeaders : logout(headers)
    \/ \E route \in ProtectedRoutes, headers \in UiHeaders : protected(route, headers)
    \/ tick

SpecUi == InitUi /\ [][NextUi]_vars

LoggedOut(token) == \E i \in 1..Len(terminated_ok) : terminated_ok[i] = token

\* C40: with config-UI authentication enabled, the handler of a protected
\* route runs only for a request whose bearer token a login with the
\* configured username and password handed out, that no logout has named
\* since, and that was drawn less than 24 hours ago; a login that fails
\* creates no session; and a token whose session a logout removed is answered 401 by
\* every protected route from then on
C40_ProtectedNeedsLiveLogin ==
    [][/\ (auth.enabled /\ ev'.op = "protected" /\ ev'.next)
          => \E k \in known' :
                 /\ ev'.token = Some(k.token)
                 /\ k.username = auth.username /\ k.password = auth.password
                 /\ ~\E i \in 1..Len(terminated_ok') : terminated_ok'[i] = k.token
                 /\ env'.now - k.at < SESSION_DURATION
       /\ (ev'.op = "login" /\ ev'.status # Some(200))
          => /\ sessions' = sessions
             /\ known' = known
             /\ ev'.token = None
             /\ ~verify(auth, arg'.username, arg'.password)
       /\ (/\ auth.enabled
           /\ ev'.op = "protected"
           /\ ev'.route \in ProtectedRoutes
           /\ IsSome(ev'.token)
           /\ \E i \in 1..Len(terminated_ok') : terminated_ok'[i] = Unwrap(ev'.token))
          => (~ev'.next /\ ev'.status = Some(401))]_vars

\* a token that a login handed out and a logout ended is refused while it
\* would still be within its 24 hours
C40_Witness ==
    /\ auth.enabled
    /\ ev.op = "protected"
    /\ ev.status = Some(401)
    /\ \E k \in known : /\ ev.token = Some(k.token)
                        /\ LoggedOut(k.token)
                        /\ env.now - k.at < SESSION_DURATION

====
